---- MODULE Spec2Model ----
(***************************************************************************)
(* State-machine model of the log-structured key-value engine of           *)
(* lsm-database/core_engine/src/log_file/mod.rs (LogFile).                 *)
(*                                                                         *)
(* Files are modelled byte by byte: a file is a sequence of bytes, a       *)
(* record is written with the layout the code writes and decoded the way   *)
(* get_index_from_file decodes it, so an index entry whose offset is not   *)
(* the start of a record decodes whatever bytes lie there.                 *)
(***************************************************************************)
EXTENDS Integers, Sequences, FiniteSets, TLC

VARIABLES
  byte_offset,      \* Inner.byte_offset
  current_file_id,  \* Inner.current_file_id
  path,             \* Inner.path: the file appends go to
  data_index,       \* Inner.data_index: key -> [file_id, offset]
  file_index,       \* Inner.file_index: file_id -> path
  disk,             \* the directory ./tmp: path -> bytes of the file
  phase,            \* "new" (constructed), "running" (start() returned), "aborted" (a panic ended the process)
  last,             \* the last call made and what it returned
  expect,           \* ghost: key -> value of its most recent successful put/update (no entry after a successful delete)
  clean,            \* ghost: keys written by put/update with only put/update calls made since
  masked,           \* ghost: keys put and then deleted, both with success, by this engine and not written since
  nops,             \* number of calls made so far (bounded by MaxOps)
  th,               \* concurrent clients: thread -> its call, where it stands in it and its locals
  poisoned,         \* the mutex is poisoned: a thread panicked while holding it
  util              \* the structure of the utils crate the calls work on

vars == <<byte_offset, current_file_id, path, data_index, file_index, disk,
          phase, last, expect, clean, masked, nops, th, poisoned, util>>

-----------------------------------------------------------------------------
(* Bounds of the model *)

MaxOps == 4
MaxLen == 3
MaxVal == 3
StackDepth == 8
MaxCalls == 4
BigLen == 1000

(* Program constants *)

FILE_THRESHOLD == 1024
WORD == 8

HEADER == WORD * 3

(* Any decoded u64 of 2^24 or more: larger than every file of the model,   *)
(* which is all the code ever asks of such a number (the size check of     *)
(* get_index_from_file).                                                    *)
Huge == 256 * 256 * 256

-----------------------------------------------------------------------------
(* Inputs: keys and values are strings, modelled by their ASCII bytes *)

KeyA == <<97>>
KeyB == <<98>>
EmptyStr == <<>>
Keys == {KeyA, KeyB}
ValX == <<120>>
ValBig == [i \in 1..BigLen |-> 122]
Values == {EmptyStr, ValX, ValBig}

(* Clock readings, as the 8 little-endian bytes of the i64 the code gets:  *)
(* Utc::now().timestamp_nanos_opt() (about 1.7e18) and Utc::now()          *)
(* .timestamp() (about 1.7e9).                                             *)
NowNanos == <<17, 34, 51, 68, 85, 102, 119, 24>>
NowSecs == <<17, 34, 51, 104, 0, 0, 0, 0>>

-----------------------------------------------------------------------------
(* Maps (HashMap) as functions *)

EmptyMap == [x \in {} |-> 0]
MapInsert(m, k, v) == [x \in (DOMAIN m) \cup {k} |-> IF x = k THEN v ELSE m[x]]
MapRemove(m, k) == [x \in (DOMAIN m) \ {k} |-> m[x]]

(* Paths under ./tmp: <<prefix, number, suffix>> stands for the string     *)
(* prefix ++ decimal(number) ++ suffix.                                     *)
NoPath == <<"", 0, "">>
SegPath(id) == <<"log-file-", id, "">>
CompactedPath(id) == <<"log-file-", id, ".log">>
HintPath(id) == <<"hint-", id, ".log">>
TempPath(t) == <<"temp-log-file-", t, "">>

(* start()'s filter: the name has the prefix "log-file-" and the rest      *)
(* parses as a u64 (so "1.log" does not).                                   *)
IsSegmentName(p) == p[1] = "log-file-" /\ p[3] = ""

-----------------------------------------------------------------------------
(* Record codec *)

(* u64::to_le_bytes / usize::to_le_bytes, for n < 2^24 *)
to_le_bytes(n) == <<n % 256, (n \div 256) % 256, (n \div 65536) % 256, 0, 0, 0, 0, 0>>

(* u64::from_le_bytes *)
from_le_bytes(b) ==
  IF \A i \in 4..8 : b[i] = 0 THEN b[1] + 256 * b[2] + 65536 * b[3] ELSE Huge

(* the bytes insert_index_value and compact write for one record *)
RecordBytes(meta) ==
  meta.timestamp \o to_le_bytes(meta.key_size) \o to_le_bytes(meta.value_size)
    \o meta.key_buf \o meta.value_buf

(* read_exact_at of n bytes at offset, where they lie within the file *)
ReadAt(file, offset, n) == SubSeq(file, offset + 1, offset + n)

(* get_index_from_file once the three header words are read *)
DecodeBody(file, offset, key_size, value_size) ==
  IF offset + HEADER + key_size + value_size > Len(file)
  THEN [res |-> "UnexpectedEof"]
  ELSE [res |-> "Ok",
        meta |-> [timestamp |-> ReadAt(file, offset, WORD),
                  key_size |-> key_size,
                  key_buf |-> ReadAt(file, offset + HEADER, key_size),
                  value_size |-> value_size,
                  value_buf |-> ReadAt(file, offset + HEADER + key_size, value_size)],
        offset |-> offset + HEADER + key_size + value_size]

(* returns the record and the offset after it, or the error of a short read *)
get_index_from_file(offset, file) ==
  IF offset + HEADER > Len(file)
  THEN [res |-> "UnexpectedEof"]
  ELSE DecodeBody(file, offset,
                  from_le_bytes(ReadAt(file, offset + WORD, WORD)),
                  from_le_bytes(ReadAt(file, offset + 2 * WORD, WORD)))

(* String::from_utf8(..).unwrap(): panics on bytes that are not UTF-8 *)
RECURSIVE Utf8From(_, _)
Utf8From(b, i) ==
  LET cont(j) == j <= Len(b) /\ b[j] >= 128 /\ b[j] <= 191
  IN IF i > Len(b) THEN TRUE
     ELSE IF b[i] < 128 THEN Utf8From(b, i + 1)
     ELSE IF b[i] >= 194 /\ b[i] <= 223 THEN cont(i + 1) /\ Utf8From(b, i + 2)
     ELSE IF b[i] >= 224 /\ b[i] <= 239
       THEN /\ cont(i + 1) /\ cont(i + 2)
            /\ (b[i] = 224 => b[i + 1] >= 160)
            /\ (b[i] = 237 => b[i + 1] <= 159)
            /\ Utf8From(b, i + 3)
     ELSE IF b[i] >= 240 /\ b[i] <= 244
       THEN /\ cont(i + 1) /\ cont(i + 2) /\ cont(i + 3)
            /\ (b[i] = 240 => b[i + 1] >= 144)
            /\ (b[i] = 244 => b[i + 1] <= 143)
            /\ Utf8From(b, i + 4)
     ELSE FALSE

from_utf8_ok(b) == (\A i \in 1..Len(b) : b[i] < 128) \/ Utf8From(b, 1)

-----------------------------------------------------------------------------
(* The engine: the fields of Inner together with the directory.  Every     *)
(* operation maps an engine to [s |-> the engine after it, res |-> "Ok" or *)
(* the error it returns, "Panic" when it panics].                           *)

Eng == [byte_offset |-> byte_offset, current_file_id |-> current_file_id,
        path |-> path, data_index |-> data_index, file_index |-> file_index,
        disk |-> disk]

new(d) == [byte_offset |-> 1, current_file_id |-> 1, path |-> NoPath,
           data_index |-> EmptyMap, file_index |-> EmptyMap, disk |-> d]

Ok(s) == [s |-> s, res |-> "Ok"]
Err(s, e) == [s |-> s, res |-> e]

(* create without `inner.byte_offset = 0` *)
create_KeepsOffset(s) ==
  Ok([s EXCEPT !.disk = IF SegPath(s.current_file_id) \in DOMAIN @ THEN @
                        ELSE MapInsert(@, SegPath(s.current_file_id), <<>>),
               !.path = SegPath(s.current_file_id),
               !.file_index = MapInsert(@, s.current_file_id, SegPath(s.current_file_id))])

create(s) ==
  Ok([s EXCEPT !.disk = IF SegPath(s.current_file_id) \in DOMAIN @ THEN @
                        ELSE MapInsert(@, SegPath(s.current_file_id), <<>>),
               !.path = SegPath(s.current_file_id),
               !.file_index = MapInsert(@, s.current_file_id, SegPath(s.current_file_id)),
               !.byte_offset = 0])

(* a split that leaves the active segment as it is *)
split_NoRotation(s) ==
  IF s.path \notin DOMAIN s.disk THEN Err(s, "OpenFailed") ELSE Ok(s)

split(s) ==
  IF s.path \notin DOMAIN s.disk
  THEN Err(s, "OpenFailed")
  ELSE IF Len(s.disk[s.path]) > FILE_THRESHOLD
       THEN create([s EXCEPT !.current_file_id = @ + 1])
       ELSE Ok(s)

insert_index_value(s, meta) ==
  IF s.path \notin DOMAIN s.disk
  THEN Err(s, "OpenFailed")
  ELSE split([s EXCEPT !.disk[s.path] = @ \o RecordBytes(meta)])

MetaIndex(timestamp, key, value) ==
  [timestamp |-> timestamp, key_size |-> Len(key), key_buf |-> key,
   value_size |-> Len(value), value_buf |-> value]

(* append without the is_empty check *)
append_AnyKey(s, key, value) ==
  insert_index_value(
    [s EXCEPT !.data_index = MapInsert(@, key, [offset |-> s.byte_offset,
                                                file_id |-> s.current_file_id]),
              !.byte_offset = @ + (Len(value) + Len(key) + WORD * 3)],
    MetaIndex(NowNanos, key, value))

append(s, key, value) ==
  IF key = EmptyStr
  THEN Err(s, "EmptyKey")
  ELSE insert_index_value(
         [s EXCEPT !.data_index = MapInsert(@, key, [offset |-> s.byte_offset,
                                                     file_id |-> s.current_file_id]),
                   !.byte_offset = @ + (Len(value) + Len(key) + WORD * 3)],
         MetaIndex(NowNanos, key, value))

get_index_value(s, id) ==
  IF id \notin DOMAIN s.data_index
  THEN [res |-> "KeyMissing"]
  ELSE IF s.data_index[id].file_id \notin DOMAIN s.file_index
  THEN [res |-> "Panic"]
  ELSE IF s.file_index[s.data_index[id].file_id] \notin DOMAIN s.disk
  THEN [res |-> "OpenFailed"]
  ELSE get_index_from_file(s.data_index[id].offset,
                           s.disk[s.file_index[s.data_index[id].file_id]])

Failed(e) == [res |-> e, value |-> <<>>]
Value(v) == [res |-> "Ok", value |-> v]

(* read, given what get_index_value returned *)
ReadValue(index) ==
  IF index.res # "Ok" THEN Failed(index.res)
  ELSE IF ~from_utf8_ok(index.meta.value_buf) THEN Failed("Panic")
  ELSE Value(index.meta.value_buf)

read(s, id) ==
  IF id \notin DOMAIN s.data_index
  THEN Failed("KeyMissing")
  ELSE ReadValue(get_index_value(s, id))

(* update without the contains_key check *)
update_AnyKey(s, key, value) ==
  IF key = EmptyStr
  THEN Err(s, "EmptyKey")
  ELSE insert_index_value(
         [s EXCEPT !.data_index = MapInsert(@, key, [offset |-> s.byte_offset,
                                                     file_id |-> s.current_file_id]),
                   !.byte_offset = @ + (Len(value) + Len(key) + WORD * 2)],
         MetaIndex(NowSecs, key, value))

update(s, key, value) ==
  IF key = EmptyStr
  THEN Err(s, "EmptyKey")
  ELSE IF key \notin DOMAIN s.data_index
  THEN Err(s, "KeyMissing")
  ELSE insert_index_value(
         [s EXCEPT !.data_index = MapInsert(@, key, [offset |-> s.byte_offset,
                                                     file_id |-> s.current_file_id]),
                   !.byte_offset = @ + (Len(value) + Len(key) + WORD * 2)],
         MetaIndex(NowSecs, key, value))

(* a delete that appends the tombstone and leaves the key in the index *)
DeleteIndexed_KeepsEntry(id, r) == r

(* delete, given what insert_index_value returned for the tombstone *)
DeleteIndexed(id, r) ==
  IF r.res # "Ok" THEN r ELSE Ok([r.s EXCEPT !.data_index = MapRemove(@, id)])

(* delete, given what get_index_value returned *)
DeleteFound(s, id, index) ==
  IF index.res # "Ok" THEN Err(s, index.res)
  ELSE IF ~from_utf8_ok(index.meta.value_buf) THEN Err(s, "Panic")
  ELSE DeleteIndexed(id, insert_index_value(s, [index.meta EXCEPT !.value_size = 0,
                                                                   !.value_buf = <<>>]))

delete(s, id) == DeleteFound(s, id, get_index_value(s, id))

-----------------------------------------------------------------------------
(* Compaction *)

Min(S) == CHOOSE x \in S : \A y \in S : x <= y
Max(S) == CHOOSE x \in S : \A y \in S : y <= x

(* the loop of compact_file over one file, from `offset` on; CompactRecord *)
(* is its body once the record at `offset` is decoded                      *)
RECURSIVE CompactLoop(_, _, _)
(* a scan that keeps the records without a value *)
CompactRecord_KeepsTombstones(file, end_file, r) ==
  IF r.res # "Ok" THEN [res |-> r.res, end_file |-> end_file]
  ELSE IF ~from_utf8_ok(r.meta.key_buf) THEN [res |-> "Panic", end_file |-> end_file]
  ELSE CompactLoop(file, r.offset, MapInsert(end_file, r.meta.key_buf, r.meta))

CompactRecord(file, end_file, r) ==
  IF r.res # "Ok" THEN [res |-> r.res, end_file |-> end_file]
  ELSE IF ~from_utf8_ok(r.meta.key_buf) THEN [res |-> "Panic", end_file |-> end_file]
  ELSE CompactLoop(file, r.offset,
                   IF r.meta.value_buf = <<>>
                   THEN MapRemove(end_file, r.meta.key_buf)
                   ELSE MapInsert(end_file, r.meta.key_buf, r.meta))

CompactLoop(file, offset, end_file) ==
  IF Len(file) <= offset
  THEN [res |-> "Ok", end_file |-> end_file]
  ELSE CompactRecord(file, end_file, get_index_from_file(offset, file))

compact_file(d, end_file, file_idx) ==
  IF file_idx \notin DOMAIN d
  THEN [res |-> "OpenFailed", end_file |-> end_file]
  ELSE CompactLoop(d[file_idx], 0, end_file)

(* compact's loop over sorted_file_ids: `ids` are the ids still to scan *)
RECURSIVE CompactFiles(_, _, _, _)
CompactNext(d, new_hash, ids, r) ==
  IF r.res # "Ok" THEN r ELSE CompactFiles(d, new_hash, ids, r.end_file)

CompactFiles(d, new_hash, ids, end_file) ==
  IF ids = {}
  THEN [res |-> "Ok", end_file |-> end_file]
  ELSE CompactNext(d, new_hash, ids \ {Min(ids)},
                   compact_file(d, end_file, new_hash[Min(ids)]))

(* the sequences that list every element of S once: the orders in which a  *)
(* HashMap with keys S may be iterated                                      *)
Orders(S) ==
  {o \in [1..Cardinality(S) -> S] : \A i, j \in 1..Cardinality(S) : o[i] = o[j] => i = j}

RECURSIVE Concat(_, _)
Concat(order, f) ==
  IF order = <<>> THEN <<>> ELSE f[Head(order)] \o Concat(Tail(order), f)

HintEntry(key, index) ==
  to_le_bytes(Len(key)) \o key \o NowSecs
    \o to_le_bytes(index.file_id) \o to_le_bytes(index.offset)

(* `order` is the order in which data_index is iterated *)
write_hint_file(s, order) ==
  Ok([s EXCEPT !.disk =
        MapInsert(@, HintPath(s.current_file_id),
                  (IF HintPath(s.current_file_id) \in DOMAIN @
                   THEN @[HintPath(s.current_file_id)] ELSE <<>>)
                    \o Concat(order, [k \in DOMAIN s.data_index |->
                                        HintEntry(k, s.data_index[k])]))])

RECURSIVE RemoveFiles(_, _)
RemoveFiles(d, paths) ==
  IF paths = {} THEN d
  ELSE RemoveFiles(MapRemove(d, CHOOSE q \in paths : TRUE),
                   paths \ {CHOOSE q \in paths : TRUE})

(* the scan of compact: every file of file_index in ascending id order *)
EndFile(s) == CompactFiles(s.disk, s.file_index, DOMAIN s.file_index, EmptyMap)

(* compact from `current_file_id = 1` on: s holds the written temp file.   *)
(* remove_file of a path that is gone returns the error; which of the      *)
(* other files were removed before it depends on the iteration order (all  *)
(* of them here).                                                           *)
CompactSwap(s, temp_file_path, paths, hint_order) ==
  IF \E q \in paths : q \notin DOMAIN s.disk
  THEN Err([s EXCEPT !.current_file_id = 1,
                     !.disk = RemoveFiles(@, paths \cap DOMAIN @)], "OpenFailed")
  ELSE write_hint_file(
         [s EXCEPT !.current_file_id = 1,
                   !.disk = MapInsert(MapRemove(RemoveFiles(@, paths), temp_file_path),
                                      CompactedPath(1), @[temp_file_path]),
                   !.path = CompactedPath(1),
                   !.file_index = MapInsert(@, 1, CompactedPath(1))],
         hint_order)

(* compact, given the result of its scan *)
CompactScanned(s, now, order, hint_order, scan) ==
  IF scan.res # "Ok"
  THEN Err([s EXCEPT !.file_index = EmptyMap], scan.res)
  ELSE CompactSwap(
         [s EXCEPT !.disk = MapInsert(@, TempPath(now),
                      Concat(order, [k \in DOMAIN scan.end_file |->
                                       RecordBytes(scan.end_file[k])]))],
         TempPath(now), {s.file_index[i] : i \in DOMAIN s.file_index}, hint_order)

(* now: the clock reading that names the temp file; order: the order in    *)
(* which end_file is iterated; hint_order: that of data_index               *)
compact(s, now, order, hint_order) ==
  CompactScanned(s, now, order, hint_order, EndFile(s))

-----------------------------------------------------------------------------
(* Recovery *)

(* the loop of read_hint_file from `offset` on; HintEntryAt is its body    *)
(* once key_size is read                                                    *)
RECURSIVE HintLoop(_, _, _)
HintEntryAt(file, offset, index, key_size) ==
  IF offset + WORD + key_size > Len(file)
  THEN [res |-> "UnexpectedEof", data_index |-> index]
  ELSE IF ~from_utf8_ok(ReadAt(file, offset + WORD, key_size))
  THEN [res |-> "Panic", data_index |-> index]
  ELSE IF offset + WORD + key_size + 3 * WORD > Len(file)
  THEN [res |-> "UnexpectedEof", data_index |-> index]
  ELSE HintLoop(file, offset + WORD + key_size + 3 * WORD,
                MapInsert(index, ReadAt(file, offset + WORD, key_size),
                  [offset |-> from_le_bytes(ReadAt(file, offset + WORD + key_size + 2 * WORD, WORD)),
                   file_id |-> from_le_bytes(ReadAt(file, offset + WORD + key_size + WORD, WORD))]))

HintLoop(file, offset, index) ==
  IF Len(file) <= offset
  THEN [res |-> "Ok", data_index |-> index]
  ELSE IF offset + WORD > Len(file)
  THEN [res |-> "UnexpectedEof", data_index |-> index]
  ELSE HintEntryAt(file, offset, index, from_le_bytes(ReadAt(file, offset, WORD)))

Indexed(s, r) == [s |-> [s EXCEPT !.data_index = r.data_index], res |-> r.res]

read_hint_file(s) ==
  IF HintPath(s.current_file_id) \notin DOMAIN s.disk THEN Ok(s)
  ELSE Indexed(s, HintLoop(s.disk[HintPath(s.current_file_id)], 0, s.data_index))

(* start's loop over the records of one segment, from `offset` on;         *)
(* StartRecord is its body once the record at `offset` is decoded           *)
RECURSIVE StartLoop(_, _, _, _)
(* a scan that returns the error of a record it cannot decode *)
StartRecord_ReturnsEof(file, file_id, offset, index, r) ==
  IF r.res # "Ok" THEN [res |-> r.res, data_index |-> index]
  ELSE IF ~from_utf8_ok(r.meta.key_buf) THEN [res |-> "Panic", data_index |-> index]
  ELSE StartLoop(file, file_id, r.offset,
                 IF r.meta.value_buf = <<>>
                 THEN MapRemove(index, r.meta.key_buf)
                 ELSE MapInsert(index, r.meta.key_buf,
                                [offset |-> offset, file_id |-> file_id]))

StartRecord(file, file_id, offset, index, r) ==
  IF r.res # "Ok" THEN [res |-> "Ok", data_index |-> index]
  ELSE IF ~from_utf8_ok(r.meta.key_buf) THEN [res |-> "Panic", data_index |-> index]
  ELSE StartLoop(file, file_id, r.offset,
                 IF r.meta.value_buf = <<>>
                 THEN MapRemove(index, r.meta.key_buf)
                 ELSE MapInsert(index, r.meta.key_buf,
                                [offset |-> offset, file_id |-> file_id]))

StartLoop(file, file_id, offset, index) ==
  IF Len(file) <= offset
  THEN [res |-> "Ok", data_index |-> index]
  ELSE StartRecord(file, file_id, offset, index, get_index_from_file(offset, file))

(* start's loop over the sorted segment files: `ids` are those still to scan *)
RECURSIVE StartFiles(_, _)
StartNext(ids, r) == IF r.res # "Ok" THEN r ELSE StartFiles(r.s, ids)

StartFiles(s, ids) ==
  IF ids = {} THEN Ok(s)
  ELSE StartNext(ids \ {Min(ids)},
         Indexed([s EXCEPT !.file_index = MapInsert(@, Min(ids), SegPath(Min(ids)))],
                 StartLoop(s.disk[SegPath(Min(ids))], Min(ids), 0, s.data_index)))

(* the numbers of the files start lists: log-file-<u64> *)
SegmentIds(d) == {p[2] : p \in {q \in DOMAIN d : IsSegmentName(q)}}

(* a start that also registers the temp-log-file-* files of the directory *)
StartScanned_RegistersTemp(files, scan) ==
  IF scan.res # "Ok" THEN scan
  ELSE create([scan.s EXCEPT
         !.current_file_id = (IF files = {} THEN 1 ELSE Max(files)) + 1,
         !.file_index = [i \in DOMAIN @ \cup {p[2] : p \in {q \in DOMAIN scan.s.disk :
                                                       q[1] = "temp-log-file-"}} |->
                           IF TempPath(i) \in DOMAIN scan.s.disk THEN TempPath(i) ELSE @[i]]])

(* start, given the result of the scan of the listed files *)
StartScanned(files, scan) ==
  IF scan.res # "Ok" THEN scan
  ELSE create([scan.s EXCEPT !.current_file_id =
                 (IF files = {} THEN 1 ELSE Max(files)) + 1])

(* start, given the result of read_hint_file *)
StartHinted(h) ==
  IF h.res # "Ok" THEN h
  ELSE StartScanned(SegmentIds(h.s.disk), StartFiles(h.s, SegmentIds(h.s.disk)))

start(s) == StartHinted(read_hint_file(s))

-----------------------------------------------------------------------------
(* The calls of a single client thread *)

(* no structure of the utils crate is in use *)
NoUtil == [kind |-> "none"]

Threads == {"t1", "t2"}

(* a thread that has not called yet *)
Idle == [pc |-> "idle", op |-> "", key |-> <<>>, value |-> <<>>, res |-> "",
         ret |-> <<>>, meta |-> MetaIndex(<<>>, <<>>, <<>>), file |-> NoPath,
         offset |-> 0, part |-> 0, new_hash |-> EmptyMap, end_file |-> EmptyMap,
         temp_file_path |-> NoPath]

Call(op, key, value, res) == [op |-> op, key |-> key, value |-> value, res |-> res]

(* the engine and the directory after a call that returned r *)
Install(r) ==
  /\ byte_offset' = r.s.byte_offset
  /\ current_file_id' = r.s.current_file_id
  /\ path' = r.s.path
  /\ data_index' = r.s.data_index
  /\ file_index' = r.s.file_index
  /\ disk' = r.s.disk
  /\ phase' = IF r.res = "Panic" THEN "aborted" ELSE "running"

(* a put or update that returned r *)
Wrote(op, key, value, r) ==
  /\ Install(r)
  /\ last' = Call(op, key, value, r.res)
  /\ expect' = IF r.res = "Ok" THEN MapInsert(expect, key, [value |-> value, op |-> op])
               ELSE expect
  /\ clean' = IF r.res = "Ok" THEN clean \cup {key} ELSE clean
  /\ masked' = IF r.res = "Ok" THEN masked \ {key} ELSE masked
  /\ nops' = nops + 1
  /\ UNCHANGED <<th, poisoned, util>>

(* a delete, compact or start that returned r *)
Did(op, key, r) ==
  /\ Install(r)
  /\ last' = Call(op, key, <<>>, r.res)
  /\ expect' = IF op = "delete" /\ r.res = "Ok" THEN MapRemove(expect, key) ELSE expect
  /\ clean' = {}
  /\ masked' = IF op = "delete"
               THEN (IF r.res = "Ok" /\ key \in DOMAIN expect THEN masked \cup {key} ELSE masked)
               ELSE IF op = "compact" THEN masked ELSE {}
  /\ nops' = IF op = "start" THEN nops ELSE nops + 1
  /\ UNCHANGED <<th, poisoned, util>>

(* a get that returned r *)
Got(key, r) ==
  /\ phase' = IF r.res = "Panic" THEN "aborted" ELSE "running"
  /\ last' = Call("get", key, r.value, r.res)
  /\ nops' = nops + 1
  /\ UNCHANGED <<byte_offset, current_file_id, path, data_index, file_index, disk,
                 expect, clean, masked, th, poisoned, util>>

Init ==
  /\ byte_offset = new(EmptyMap).byte_offset
  /\ current_file_id = new(EmptyMap).current_file_id
  /\ path = new(EmptyMap).path
  /\ data_index = new(EmptyMap).data_index
  /\ file_index = new(EmptyMap).file_index
  /\ disk = EmptyMap
  /\ phase = "new"
  /\ last = Call("new", <<>>, <<>>, "Ok")
  /\ expect = EmptyMap
  /\ clean = {}
  /\ masked = {}
  /\ nops = 0
  /\ th = [t \in Threads |-> Idle]
  /\ poisoned = FALSE
  /\ util = NoUtil

Start ==
  /\ phase = "new"
  /\ Did("start", <<>>, start(Eng))

Put(key, value) ==
  /\ phase = "running" /\ nops < MaxOps
  /\ Wrote("put", key, value, append(Eng, key, value))

Update(key, value) ==
  /\ phase = "running" /\ nops < MaxOps
  /\ Wrote("update", key, value, update(Eng, key, value))

Delete(key) ==
  /\ phase = "running" /\ nops < MaxOps
  /\ Did("delete", key, delete(Eng, key))

Get(key) ==
  /\ phase = "running" /\ nops < MaxOps
  /\ Got(key, read(Eng, key))

Compact ==
  /\ phase = "running" /\ nops < MaxOps
  /\ \E order \in Orders(DOMAIN EndFile(Eng).end_file) :
       \E hint_order \in Orders(DOMAIN data_index) :
         Did("compact", <<>>, compact(Eng, nops, order, hint_order))

(* the process ends (crash or exit) and a fresh engine is started over the *)
(* same directory                                                           *)
Reopen ==
  /\ phase \in {"running", "aborted"} /\ nops < MaxOps
  /\ Did("reopen", <<>>, start(new(disk)))

Next ==
  \/ Start
  \/ \E key \in Keys, value \in Values : Put(key, value)
  \/ Put(EmptyStr, ValX)
  \/ \E key \in Keys, value \in Values : Update(key, value)
  \/ Update(EmptyStr, ValX)
  \/ \E key \in Keys : Delete(key)
  \/ \E key \in Keys : Get(key)
  \/ Compact
  \/ Reopen

Spec == Init /\ [][Next]_vars

(* a client that, after start(), only calls put *)
NextPuts ==
  \/ Start
  \/ \E key \in Keys, value \in Values : Put(key, value)

SpecPuts == Init /\ [][NextPuts]_vars

-----------------------------------------------------------------------------
(* Concurrent clients.  Each thread makes one call; a step is one critical *)
(* section of the mutex (from lock() to the drop of the guard) or one file *)
(* system call made outside it.  No call holds the mutex from one step to  *)
(* the next.                                                                *)

(* the engine the threads share: started over an empty directory, with one *)
(* record written                                                           *)
InitEngine == append(start(new(EmptyMap)).s, KeyA, ValX).s

InitConc ==
  /\ byte_offset = InitEngine.byte_offset
  /\ current_file_id = InitEngine.current_file_id
  /\ path = InitEngine.path
  /\ data_index = InitEngine.data_index
  /\ file_index = InitEngine.file_index
  /\ disk = InitEngine.disk
  /\ phase = "running"
  /\ last = Call("put", KeyA, ValX, "Ok")
  /\ expect = MapInsert(EmptyMap, KeyA, [value |-> ValX, op |-> "put"])
  /\ clean = {KeyA}
  /\ masked = {}
  /\ nops = 1
  /\ th = [t \in Threads |-> Idle]
  /\ poisoned = FALSE
  /\ util = NoUtil

Sequential == <<phase, last, expect, clean, masked, nops, util>>
Engine == <<byte_offset, current_file_id, path, data_index, file_index>>

(* the call of thread t returns res (ret: the value of a get) *)
Return(t, res, ret) ==
  th' = [th EXCEPT ![t] = [@ EXCEPT !.pc = "done", !.res = res, !.ret = ret]]

(* lock().unwrap() on a poisoned mutex panics *)
Goto(t, pc) == th' = [th EXCEPT ![t] = [@ EXCEPT !.pc = pc]]

Begin(t, op, key, value) ==
  /\ th[t].pc = "idle"
  /\ th' = [th EXCEPT ![t] = [@ EXCEPT !.op = op, !.key = key, !.value = value,
                                !.pc = IF op = "get" THEN "check"
                                       ELSE IF op = "delete" THEN "lookup"
                                       ELSE "reserve"]]
  /\ UNCHANGED <<Engine, disk, poisoned, Sequential>>

(* append, from lock() to drop(inner) *)
AppendReserve(t) ==
  /\ th[t].pc = "reserve" /\ th[t].op = "put"
  /\ IF poisoned THEN Return(t, "Panic", <<>>) /\ UNCHANGED <<data_index, byte_offset>>
     ELSE IF th[t].key = EmptyStr
     THEN Return(t, "EmptyKey", <<>>) /\ UNCHANGED <<data_index, byte_offset>>
     ELSE /\ data_index' = MapInsert(data_index, th[t].key,
                             [offset |-> byte_offset, file_id |-> current_file_id])
          /\ byte_offset' = byte_offset + (Len(th[t].value) + Len(th[t].key) + WORD * 3)
          /\ th' = [th EXCEPT ![t] = [@ EXCEPT !.pc = "open",
                      !.meta = MetaIndex(NowNanos, th[t].key, th[t].value)]]
  /\ UNCHANGED <<current_file_id, path, file_index, disk, poisoned, Sequential>>

(* update, from lock() to drop(inner) *)
UpdateReserve(t) ==
  /\ th[t].pc = "reserve" /\ th[t].op = "update"
  /\ IF poisoned THEN Return(t, "Panic", <<>>) /\ UNCHANGED <<data_index, byte_offset>>
     ELSE IF th[t].key = EmptyStr
     THEN Return(t, "EmptyKey", <<>>) /\ UNCHANGED <<data_index, byte_offset>>
     ELSE IF th[t].key \notin DOMAIN data_index
     THEN Return(t, "KeyMissing", <<>>) /\ UNCHANGED <<data_index, byte_offset>>
     ELSE /\ data_index' = MapInsert(data_index, th[t].key,
                             [offset |-> byte_offset, file_id |-> current_file_id])
          /\ byte_offset' = byte_offset + (Len(th[t].value) + Len(th[t].key) + WORD * 2)
          /\ th' = [th EXCEPT ![t] = [@ EXCEPT !.pc = "open",
                      !.meta = MetaIndex(NowSecs, th[t].key, th[t].value)]]
  /\ UNCHANGED <<current_file_id, path, file_index, disk, poisoned, Sequential>>

(* read's first statement: contains_key under the mutex *)
ReadCheck(t) ==
  /\ th[t].pc = "check"
  /\ IF poisoned THEN Return(t, "Panic", <<>>)
     ELSE IF th[t].key \notin DOMAIN data_index THEN Return(t, "KeyMissing", <<>>)
     ELSE Goto(t, "lookup")
  /\ UNCHANGED <<Engine, disk, poisoned, Sequential>>

(* get_index_value, from lock() to drop(inner): the entry is copied and    *)
(* its file opened; a file_id that file_index lacks panics under the mutex *)
Lookup(t) ==
  /\ th[t].pc = "lookup"
  /\ IF poisoned THEN Return(t, "Panic", <<>>) /\ UNCHANGED poisoned
     ELSE IF th[t].key \notin DOMAIN data_index
     THEN Return(t, "KeyMissing", <<>>) /\ UNCHANGED poisoned
     ELSE IF data_index[th[t].key].file_id \notin DOMAIN file_index
     THEN Return(t, "Panic", <<>>) /\ poisoned' = TRUE
     ELSE IF file_index[data_index[th[t].key].file_id] \notin DOMAIN disk
     THEN Return(t, "OpenFailed", <<>>) /\ UNCHANGED poisoned
     ELSE /\ th' = [th EXCEPT ![t] = [@ EXCEPT !.pc = "decode",
                      !.file = file_index[data_index[th[t].key].file_id],
                      !.offset = data_index[th[t].key].offset]]
          /\ UNCHANGED poisoned
  /\ UNCHANGED <<Engine, disk, Sequential>>

(* what follows get_index_from_file in read and in delete *)
Decoded(t, r) ==
  IF r.res # "Ok" THEN Return(t, r.res, <<>>)
  ELSE IF ~from_utf8_ok(r.meta.value_buf) THEN Return(t, "Panic", <<>>)
  ELSE IF th[t].op = "get" THEN Return(t, "Ok", r.meta.value_buf)
  ELSE th' = [th EXCEPT ![t] = [@ EXCEPT !.pc = "open",
                !.meta = [r.meta EXCEPT !.value_size = 0, !.value_buf = <<>>]]]

(* get_index_from_file on the opened file, outside the mutex *)
Decode(t) ==
  /\ th[t].pc = "decode"
  /\ Decoded(t, get_index_from_file(th[t].offset, disk[th[t].file]))
  /\ UNCHANGED <<Engine, disk, poisoned, Sequential>>

(* insert_index_value: the active path is read under the mutex and opened  *)
(* for append                                                               *)
OpenActive(t) ==
  /\ th[t].pc = "open"
  /\ IF poisoned THEN Return(t, "Panic", <<>>)
     ELSE IF path \notin DOMAIN disk THEN Return(t, "OpenFailed", <<>>)
     ELSE th' = [th EXCEPT ![t] = [@ EXCEPT !.pc = "write", !.file = path, !.part = 1]]
  /\ UNCHANGED <<Engine, disk, poisoned, Sequential>>

(* the bytes of the five write_all calls of insert_index_value *)
RecordPart(meta, part) ==
  CASE part = 1 -> meta.timestamp
    [] part = 2 -> to_le_bytes(meta.key_size)
    [] part = 3 -> to_le_bytes(meta.value_size)
    [] part = 4 -> meta.key_buf
    [] OTHER -> meta.value_buf

(* one write_all on the file opened for append (the last one with          *)
(* sync_all); the bytes written to a file that was removed meanwhile are   *)
(* in no file of the directory                                              *)
WritePart(t) ==
  /\ th[t].pc = "write"
  /\ disk' = IF th[t].file \in DOMAIN disk
             THEN [disk EXCEPT ![th[t].file] = @ \o RecordPart(th[t].meta, th[t].part)]
             ELSE disk
  /\ th' = [th EXCEPT ![t] = [@ EXCEPT !.part = @ + 1,
                                !.pc = IF th[t].part = 5 THEN "stat" ELSE "write"]]
  /\ UNCHANGED <<Engine, poisoned, Sequential>>

(* the call goes on after split returned Ok *)
AfterSplit(t) ==
  IF th[t].op = "delete" THEN Goto(t, "remove") ELSE Return(t, "Ok", <<>>)

(* split: fs::metadata of the active path, read under the mutex *)
SplitStat(t) ==
  /\ th[t].pc = "stat"
  /\ IF poisoned THEN Return(t, "Panic", <<>>)
     ELSE IF path \notin DOMAIN disk THEN Return(t, "OpenFailed", <<>>)
     ELSE IF Len(disk[path]) > FILE_THRESHOLD THEN Goto(t, "bump")
     ELSE AfterSplit(t)
  /\ UNCHANGED <<Engine, disk, poisoned, Sequential>>

(* split: current_file_id += 1 in a critical section of its own *)
SplitBump(t) ==
  /\ th[t].pc = "bump"
  /\ IF poisoned THEN Return(t, "Panic", <<>>) /\ UNCHANGED current_file_id
     ELSE Goto(t, "create") /\ current_file_id' = current_file_id + 1
  /\ UNCHANGED <<byte_offset, path, data_index, file_index, disk, poisoned, Sequential>>

(* the engine after create() *)
Created(r) ==
  /\ byte_offset' = r.s.byte_offset
  /\ path' = r.s.path
  /\ file_index' = r.s.file_index
  /\ disk' = r.s.disk

(* split: create(), one critical section *)
SplitCreate(t) ==
  /\ th[t].pc = "create"
  /\ IF poisoned
     THEN Return(t, "Panic", <<>>) /\ UNCHANGED <<byte_offset, path, file_index, disk>>
     ELSE AfterSplit(t) /\ Created(create(Eng))
  /\ UNCHANGED <<current_file_id, data_index, poisoned, Sequential>>

(* delete's last statement: data_index.remove under the mutex *)
DeleteRemove(t) ==
  /\ th[t].pc = "remove"
  /\ IF poisoned THEN Return(t, "Panic", <<>>) /\ UNCHANGED data_index
     ELSE Return(t, "Ok", <<>>) /\ data_index' = MapRemove(data_index, th[t].key)
  /\ UNCHANGED <<byte_offset, current_file_id, path, file_index, disk, poisoned, Sequential>>

ConcValues == {ValX, ValBig}

NextConc ==
  \E t \in Threads :
    \/ \E key \in Keys, value \in ConcValues : Begin(t, "put", key, value)
    \/ \E key \in Keys, value \in ConcValues : Begin(t, "update", key, value)
    \/ \E key \in Keys : Begin(t, "delete", key, <<>>)
    \/ \E key \in Keys : Begin(t, "get", key, <<>>)
    \/ AppendReserve(t)
    \/ UpdateReserve(t)
    \/ ReadCheck(t)
    \/ Lookup(t)
    \/ Decode(t)
    \/ OpenActive(t)
    \/ WritePart(t)
    \/ SplitStat(t)
    \/ SplitBump(t)
    \/ SplitCreate(t)
    \/ DeleteRemove(t)

SpecConc == InitConc /\ [][NextConc]_vars

-----------------------------------------------------------------------------
(* A compaction next to a writer, and the end of the process.  compact is  *)
(* cut where it takes or releases the mutex and between its file system    *)
(* calls; the scan of the files, the writing of the temp file and the loop *)
(* of remove_file are one step each.                                        *)

Writer == "t1"
Compactor == "t2"

InFlight(t) == th[t].pc \notin {"idle", "done", "crashed"}
Alive == \A t \in Threads : th[t].pc # "crashed"

(* the writer calls put or update once compact has scanned the files (its  *)
(* snapshot of the records)                                                 *)
WriterBegin(op, key, value) ==
  /\ Alive /\ last.op # "reopen"
  /\ th[Compactor].pc \notin {"idle", "take", "scan"}
  /\ Begin(Writer, op, key, value)

CompactBegin ==
  /\ Alive /\ last.op # "reopen"
  /\ th[Compactor].pc = "idle"
  /\ th' = [th EXCEPT ![Compactor] = [@ EXCEPT !.op = "compact", !.pc = "take"]]
  /\ UNCHANGED <<Engine, disk, poisoned, Sequential>>

(* std::mem::take(&mut file_index) *)
CompactTake(t) ==
  /\ th[t].pc = "take"
  /\ IF poisoned THEN Return(t, "Panic", <<>>) /\ UNCHANGED file_index
     ELSE /\ th' = [th EXCEPT ![t] = [@ EXCEPT !.new_hash = file_index, !.pc = "scan"]]
          /\ file_index' = EmptyMap
  /\ UNCHANGED <<byte_offset, current_file_id, path, data_index, disk, poisoned, Sequential>>

(* compact after its loop over sorted_file_ids returned scan *)
Scanned(t, scan) ==
  IF scan.res # "Ok" THEN Return(t, scan.res, <<>>)
  ELSE th' = [th EXCEPT ![t] = [@ EXCEPT !.end_file = scan.end_file, !.pc = "restore"]]

CompactScan(t) ==
  /\ th[t].pc = "scan"
  /\ Scanned(t, CompactFiles(disk, th[t].new_hash, DOMAIN th[t].new_hash, EmptyMap))
  /\ UNCHANGED <<Engine, disk, poisoned, Sequential>>

(* core::mem::replace(&mut file_index, new_hash) *)
CompactRestore(t) ==
  /\ th[t].pc = "restore"
  /\ IF poisoned THEN Return(t, "Panic", <<>>) /\ UNCHANGED file_index
     ELSE Goto(t, "temp") /\ file_index' = th[t].new_hash
  /\ UNCHANGED <<byte_offset, current_file_id, path, data_index, disk, poisoned, Sequential>>

(* File::create(temp_file_path) and the records of end_file written to it *)
CompactWriteTemp(t) ==
  /\ th[t].pc = "temp"
  /\ \E order \in Orders(DOMAIN th[t].end_file) :
       disk' = MapInsert(disk, TempPath(nops),
                 Concat(order, [k \in DOMAIN th[t].end_file |->
                                  RecordBytes(th[t].end_file[k])]))
  /\ th' = [th EXCEPT ![t] = [@ EXCEPT !.temp_file_path = TempPath(nops), !.pc = "reset"]]
  /\ UNCHANGED <<Engine, poisoned, Sequential>>

(* current_file_id = 1 *)
CompactReset(t) ==
  /\ th[t].pc = "reset"
  /\ IF poisoned THEN Return(t, "Panic", <<>>) /\ UNCHANGED current_file_id
     ELSE Goto(t, "name") /\ current_file_id' = 1
  /\ UNCHANGED <<byte_offset, path, data_index, file_index, disk, poisoned, Sequential>>

(* let path = format!("./tmp/log-file-{}.log", current_file_id) *)
CompactName(t) ==
  /\ th[t].pc = "name"
  /\ IF poisoned THEN Return(t, "Panic", <<>>)
     ELSE th' = [th EXCEPT ![t] = [@ EXCEPT !.file = CompactedPath(current_file_id),
                                            !.pc = "remove"]]
  /\ UNCHANGED <<Engine, disk, poisoned, Sequential>>

(* the files the registry names *)
Registered == {file_index[i] : i \in DOMAIN file_index}

(* the loop of fs::remove_file over file_index, under the mutex *)
CompactRemove(t) ==
  /\ th[t].pc = "remove"
  /\ IF poisoned THEN Return(t, "Panic", <<>>) /\ UNCHANGED disk
     ELSE /\ disk' = RemoveFiles(disk, Registered \cap DOMAIN disk)
          /\ IF Registered \subseteq DOMAIN disk THEN Goto(t, "rename")
             ELSE Return(t, "OpenFailed", <<>>)
  /\ UNCHANGED <<Engine, poisoned, Sequential>>

(* fs::rename(temp_file_path, path) *)
CompactRename(t) ==
  /\ th[t].pc = "rename"
  /\ disk' = MapInsert(MapRemove(disk, th[t].temp_file_path), th[t].file,
                       disk[th[t].temp_file_path])
  /\ Goto(t, "register")
  /\ UNCHANGED <<Engine, poisoned, Sequential>>

(* inner.path = path; inner.file_index.insert(current_file_id, path) *)
CompactRegister(t) ==
  /\ th[t].pc = "register"
  /\ IF poisoned THEN Return(t, "Panic", <<>>) /\ UNCHANGED <<path, file_index>>
     ELSE /\ Goto(t, "hint")
          /\ path' = th[t].file
          /\ file_index' = MapInsert(file_index, current_file_id, th[t].file)
  /\ UNCHANGED <<byte_offset, current_file_id, data_index, disk, poisoned, Sequential>>

(* write_hint_file, under the mutex from its first statement to its last *)
CompactHint(t) ==
  /\ th[t].pc = "hint"
  /\ IF poisoned THEN Return(t, "Panic", <<>>) /\ UNCHANGED disk
     ELSE /\ Return(t, "Ok", <<>>)
          /\ \E hint_order \in Orders(DOMAIN data_index) :
               disk' = write_hint_file(Eng, hint_order).s.disk
  /\ UNCHANGED <<Engine, poisoned, Sequential>>

(* the engine a new process has after start() returned r *)
Restarted(r) ==
  /\ byte_offset' = r.s.byte_offset
  /\ current_file_id' = r.s.current_file_id
  /\ path' = r.s.path
  /\ data_index' = r.s.data_index
  /\ file_index' = r.s.file_index
  /\ disk' = r.s.disk
  /\ last' = Call("reopen", <<>>, <<>>, r.res)

(* the process ends while a call is running; a new process makes a fresh   *)
(* engine and calls start() over the directory as it is                    *)
Crash ==
  /\ Alive /\ last.op # "reopen"
  /\ \E t \in Threads : InFlight(t)
  /\ th' = [t \in Threads |-> IF InFlight(t) THEN [th[t] EXCEPT !.pc = "crashed"] ELSE th[t]]
  /\ poisoned' = FALSE
  /\ Restarted(start(new(disk)))
  /\ UNCHANGED <<phase, expect, clean, masked, nops, util>>

NextCompact ==
  \/ \E key \in Keys, value \in ConcValues : WriterBegin("put", key, value)
  \/ \E key \in Keys, value \in ConcValues : WriterBegin("update", key, value)
  \/ AppendReserve(Writer)
  \/ UpdateReserve(Writer)
  \/ OpenActive(Writer)
  \/ WritePart(Writer)
  \/ SplitStat(Writer)
  \/ SplitBump(Writer)
  \/ SplitCreate(Writer)
  \/ CompactBegin
  \/ CompactTake(Compactor)
  \/ CompactScan(Compactor)
  \/ CompactRestore(Compactor)
  \/ CompactWriteTemp(Compactor)
  \/ CompactReset(Compactor)
  \/ CompactName(Compactor)
  \/ CompactRemove(Compactor)
  \/ CompactRename(Compactor)
  \/ CompactRegister(Compactor)
  \/ CompactHint(Compactor)
  \/ Crash

SpecCompact == InitConc /\ [][NextCompact]_vars

-----------------------------------------------------------------------------
(* File system errors.  A call of the sequential client in which one file  *)
(* system call returns an error: a write_all or the sync_all of            *)
(* insert_index_value, or the open of create during a rotation.             *)

(* append and update up to drop(inner): the entry and the offset counter *)
Reserved(s, key, size) ==
  [s EXCEPT !.data_index = MapInsert(@, key, [offset |-> s.byte_offset,
                                              file_id |-> s.current_file_id]),
            !.byte_offset = @ + size]

(* the bytes of the first `written` write_all calls of insert_index_value *)
RECURSIVE Parts(_, _)
Parts(meta, written) ==
  IF written = 0 THEN <<>> ELSE Parts(meta, written - 1) \o RecordPart(meta, written)

(* insert_index_value when the call after `written` write_all calls        *)
(* returns an error (after all five: sync_all); `?` returns it             *)
insert_index_value_WriteFails(s, meta, written) ==
  Err([s EXCEPT !.disk[s.path] = @ \o Parts(meta, written)], "WriteFailed")

(* insert_index_value when the record is written and, in split, the open   *)
(* of create returns an error: current_file_id is already incremented      *)
insert_index_value_CreateFails(s, meta) ==
  Err([s EXCEPT !.disk[s.path] = @ \o RecordBytes(meta),
                !.current_file_id = @ + 1], "CreateFailed")

(* the numbers of write_all calls that succeed before the error *)
FailPoints == {0, 3, 5}

PutWriteFails(key, value, written) ==
  /\ phase = "running" /\ nops < MaxOps
  /\ path \in DOMAIN disk
  /\ Wrote("put", key, value,
           insert_index_value_WriteFails(
             Reserved(Eng, key, Len(value) + Len(key) + WORD * 3),
             MetaIndex(NowNanos, key, value), written))

UpdateWriteFails(key, value, written) ==
  /\ phase = "running" /\ nops < MaxOps
  /\ path \in DOMAIN disk
  /\ key \in DOMAIN data_index
  /\ Wrote("update", key, value,
           insert_index_value_WriteFails(
             Reserved(Eng, key, Len(value) + Len(key) + WORD * 2),
             MetaIndex(NowSecs, key, value), written))

PutCreateFails(key, value) ==
  /\ phase = "running" /\ nops < MaxOps
  /\ path \in DOMAIN disk
  /\ Len(disk[path]) + (Len(value) + Len(key) + WORD * 3) > FILE_THRESHOLD
  /\ Wrote("put", key, value,
           insert_index_value_CreateFails(
             Reserved(Eng, key, Len(value) + Len(key) + WORD * 3),
             MetaIndex(NowNanos, key, value)))

NextFault ==
  \/ Start
  \/ \E key \in Keys, value \in ConcValues : Put(key, value)
  \/ \E key \in Keys : Update(key, ValX)
  \/ \E key \in Keys : Delete(key)
  \/ \E key \in Keys : Get(key)
  \/ Reopen
  \/ \E key \in Keys, written \in FailPoints : PutWriteFails(key, ValX, written)
  \/ \E key \in Keys, written \in FailPoints : UpdateWriteFails(key, ValX, written)
  \/ \E key \in Keys, value \in ConcValues : PutCreateFails(key, value)

SpecFault == Init /\ [][NextFault]_vars

-----------------------------------------------------------------------------
(* Recovery of a segment with a torn tail.  The process ends while the     *)
(* last record of the active segment is only partly in the file; a fresh   *)
(* engine is then started over the directory.                               *)

(* the offset at which the last record of `file` begins, found by decoding *)
(* the records from `offset` on                                             *)
RECURSIVE TailFrom(_, _)
TailAt(file, offset, r) ==
  IF r.res # "Ok" THEN offset
  ELSE IF Len(file) <= r.offset THEN offset
  ELSE TailFrom(file, r.offset)

TailFrom(file, offset) == TailAt(file, offset, get_index_from_file(offset, file))

(* the numbers of bytes of a record of `len` bytes that stay in the file:  *)
(* inside the timestamp, key_size and value_size, at the end of the header *)
(* and inside the key and the value                                         *)
Cuts(len) == {c \in {1, 8, 15, 23, 24, 25, len - 1} : 0 < c /\ c < len}

(* the directory with the active file cut to `tail + cut` bytes *)
Torn(tail, cut) == [disk EXCEPT ![path] = SubSeq(@, 1, tail + cut)]

TornAt(tail) ==
  \E cut \in Cuts(Len(disk[path]) - tail) :
    Did("torn", <<>>, start(new(Torn(tail, cut))))

TornReopen ==
  /\ phase = "running" /\ nops < MaxOps
  /\ path \in DOMAIN disk /\ Len(disk[path]) > 0
  /\ TornAt(TailFrom(disk[path], 0))

NextTorn ==
  \/ Start
  \/ \E key \in Keys, value \in Values : Put(key, value)
  \/ \E key \in Keys : Update(key, ValX)
  \/ \E key \in Keys : Delete(key)
  \/ Reopen
  \/ TornReopen

SpecTorn == Init /\ [][NextTorn]_vars

-----------------------------------------------------------------------------
(* The utils crate.  Its structures are used on their own: the log file    *)
(* stays as new() made it.                                                  *)

LogFileVars == <<byte_offset, current_file_id, path, data_index, file_index, disk,
                 phase, last, expect, clean, masked, nops, th, poisoned>>

NoLogFile ==
  /\ byte_offset = new(EmptyMap).byte_offset
  /\ current_file_id = new(EmptyMap).current_file_id
  /\ path = new(EmptyMap).path
  /\ data_index = new(EmptyMap).data_index
  /\ file_index = new(EmptyMap).file_index
  /\ disk = EmptyMap
  /\ phase = "new"
  /\ last = Call("new", <<>>, <<>>, "Ok")
  /\ expect = EmptyMap
  /\ clean = {}
  /\ masked = {}
  /\ nops = 0
  /\ th = [t \in Threads |-> Idle]
  /\ poisoned = FALSE

(* Option<T>: None is <<>> and Some(v) is <<v>> *)
None == <<>>
Some(v) == <<v>>

(* Searcher::binary_search.  The slices sorted in ascending order, of up   *)
(* to MaxLen elements from 1..MaxVal; the targets include a value below    *)
(* and a value above every element.                                         *)
SortedSlices ==
  {s \in UNION {[1..n -> 1..MaxVal] : n \in 0..MaxLen} :
     \A i \in 1..(Len(s) - 1) : s[i] <= s[i + 1]}

Targets == 0..(MaxVal + 1)

InitSearch ==
  /\ NoLogFile
  /\ \E data \in SortedSlices, value \in Targets :
       util = [kind |-> "search", input |-> data, data |-> data, value |-> value,
               depth |-> 1, pc |-> "call", ret |-> None]

(* one call of binary_search(data, value) up to its return or to the call  *)
(* it makes on a half of the slice; mid counts from 0                      *)
Searched(data, value, mid) ==
  IF data[mid + 1] = value
  THEN util' = [util EXCEPT !.pc = "returned", !.ret = Some(data[mid + 1])]
  ELSE IF data[mid + 1] > value
  THEN util' = [util EXCEPT !.data = SubSeq(data, 1, mid), !.depth = @ + 1]
  ELSE util' = [util EXCEPT !.data = SubSeq(data, mid + 1, Len(data)), !.depth = @ + 1]

binary_search ==
  /\ util.kind = "search" /\ util.pc = "call" /\ util.depth <= StackDepth
  /\ IF util.data = <<>>
     THEN util' = [util EXCEPT !.pc = "returned", !.ret = None]
     ELSE Searched(util.data, util.value, Len(util.data) \div 2)
  /\ UNCHANGED LogFileVars

(* the recursion is deeper than the stack of the thread holds *)
StackOverflow ==
  /\ util.kind = "search" /\ util.pc = "call" /\ util.depth > StackDepth
  /\ util' = [util EXCEPT !.pc = "overflow"]
  /\ UNCHANGED LogFileVars

NextSearch == binary_search \/ StackOverflow

SpecSearch == InitSearch /\ [][NextSearch]_vars

-----------------------------------------------------------------------------
(* Queue.  The nodes (Rc<RefCell<Node<T>>>) are the elements of `nodes`, a *)
(* Link is the position of a node in it, 0 for None; the node a call       *)
(* allocates is appended.                                                   *)

Node(value) == [prev |-> 0, value |-> value, next |-> 0]

Queue_new ==
  [kind |-> "queue", nodes |-> <<>>, head |-> 0, tail |-> 0, len |-> 0,
   op |-> "new", ret |-> None, fifo |-> <<>>, calls |-> 0]

size(q) == q.len

peek(q) == IF q.head = 0 THEN None ELSE Some(q.nodes[q.head].value)

(* an enqueue that does not link the old tail to the new node *)
enqueue_Unlinked(q, value) ==
  IF q.tail # 0
  THEN [q EXCEPT !.nodes = Append(@, [Node(value) EXCEPT !.prev = q.tail]),
                 !.tail = Len(q.nodes) + 1,
                 !.len = @ + 1]
  ELSE [q EXCEPT !.nodes = Append(@, Node(value)),
                 !.head = Len(q.nodes) + 1,
                 !.tail = Len(q.nodes) + 1,
                 !.len = @ + 1]

enqueue(q, value) ==
  IF q.tail # 0
  THEN [q EXCEPT !.nodes = [Append(@, [Node(value) EXCEPT !.prev = q.tail])
                              EXCEPT ![q.tail].next = Len(q.nodes) + 1],
                 !.tail = Len(q.nodes) + 1,
                 !.len = @ + 1]
  ELSE [q EXCEPT !.nodes = Append(@, Node(value)),
                 !.head = Len(q.nodes) + 1,
                 !.tail = Len(q.nodes) + 1,
                 !.len = @ + 1]

(* dequeue once `next` is taken out of the old head *)
Dequeued(q, next) ==
  IF next # 0
  THEN [q EXCEPT !.nodes = [@ EXCEPT ![q.head].next = 0, ![next].prev = 0],
                 !.head = next,
                 !.len = @ - 1,
                 !.ret = Some(q.nodes[q.head].value)]
  ELSE [q EXCEPT !.head = 0,
                 !.tail = 0,
                 !.len = @ - 1,
                 !.ret = Some(q.nodes[q.head].value)]

dequeue(q) ==
  IF q.head = 0 THEN [q EXCEPT !.ret = None] ELSE Dequeued(q, q.nodes[q.head].next)

(* the loop of into_vec from `cursor` on; a chain of next links that       *)
(* never reaches None would keep it running, here it stops after `fuel`    *)
(* nodes                                                                    *)
RECURSIVE Collect(_, _, _)
Collect(nodes, cursor, fuel) ==
  IF cursor = 0 \/ fuel = 0 THEN <<>>
  ELSE <<nodes[cursor].value>> \o Collect(nodes, nodes[cursor].next, fuel - 1)

into_vec(q) == Collect(q.nodes, q.head, Len(q.nodes) + 1)

InitQueue == NoLogFile /\ util = Queue_new

(* the call made, and the queue of the values enqueued and not dequeued *)
Called(q, op, fifo) ==
  util' = [q EXCEPT !.op = op, !.fifo = fifo, !.calls = util.calls + 1]

Enqueue(value) ==
  /\ util.kind = "queue" /\ util.calls < MaxCalls
  /\ Called([enqueue(util, value) EXCEPT !.ret = None], "enqueue", Append(util.fifo, value))
  /\ UNCHANGED LogFileVars

Dequeue ==
  /\ util.kind = "queue" /\ util.calls < MaxCalls
  /\ Called(dequeue(util), "dequeue", IF util.fifo = <<>> THEN <<>> ELSE Tail(util.fifo))
  /\ UNCHANGED LogFileVars

Peek ==
  /\ util.kind = "queue" /\ util.calls < MaxCalls
  /\ Called([util EXCEPT !.ret = peek(util)], "peek", util.fifo)
  /\ UNCHANGED LogFileVars

NextQueue ==
  \/ \E value \in 1..MaxVal : Enqueue(value)
  \/ Dequeue
  \/ Peek

SpecQueue == InitQueue /\ [][NextQueue]_vars

-----------------------------------------------------------------------------
(* LinkedList.  Nodes and links as for the queue; `ret` is the Link a call *)
(* returns, `panic` says that an unwrap() of None ended it.                 *)

LinkedList_new ==
  [kind |-> "list", nodes |-> <<>>, head |-> 0, tail |-> 0, len |-> 0,
   op |-> "new", index |-> 0, ret |-> 0, panic |-> FALSE, calls |-> 0]

(* the loop of node_at: `cursor` is the node at position `current`; the    *)
(* loop ends within `fuel` nodes when the next links reach None            *)
RECURSIVE Walk(_, _, _, _, _)
Walk(nodes, cursor, current, index, fuel) ==
  IF cursor = 0 \/ fuel = 0 THEN 0
  ELSE IF current = index THEN cursor
  ELSE Walk(nodes, nodes[cursor].next, current + 1, index, fuel - 1)

node_at(l, index) ==
  IF index >= l.len THEN 0 ELSE Walk(l.nodes, l.head, 0, index, Len(l.nodes) + 1)

insert_start(l, value) ==
  IF l.head # 0
  THEN [l EXCEPT !.nodes = [Append(@, [Node(value) EXCEPT !.next = l.head])
                              EXCEPT ![l.head].prev = Len(l.nodes) + 1],
                 !.head = Len(l.nodes) + 1,
                 !.len = @ + 1,
                 !.ret = Len(l.nodes) + 1]
  ELSE [l EXCEPT !.nodes = Append(@, Node(value)),
                 !.tail = Len(l.nodes) + 1,
                 !.head = Len(l.nodes) + 1,
                 !.len = @ + 1,
                 !.ret = Len(l.nodes) + 1]

insert_end(l, value) ==
  IF l.tail # 0
  THEN [l EXCEPT !.nodes = [Append(@, [Node(value) EXCEPT !.prev = l.tail])
                              EXCEPT ![l.tail].next = Len(l.nodes) + 1],
                 !.tail = Len(l.nodes) + 1,
                 !.head = IF l.head = 0 THEN Len(l.nodes) + 1 ELSE l.head,
                 !.len = @ + 1,
                 !.ret = Len(l.nodes) + 1]
  ELSE [l EXCEPT !.nodes = Append(@, Node(value)),
                 !.head = Len(l.nodes) + 1,
                 !.tail = Len(l.nodes) + 1,
                 !.len = @ + 1,
                 !.ret = Len(l.nodes) + 1]

(* insert_at between two nodes, given node_at(index) *)
InsertBefore(l, value, current) ==
  IF current = 0 THEN [l EXCEPT !.panic = TRUE]
  ELSE IF l.nodes[current].prev = 0 THEN [l EXCEPT !.panic = TRUE]
  ELSE [l EXCEPT !.nodes = [Append(@, [prev |-> l.nodes[current].prev, value |-> value,
                                       next |-> current])
                              EXCEPT ![l.nodes[current].prev].next = Len(l.nodes) + 1,
                                     ![current].prev = Len(l.nodes) + 1],
                 !.len = @ + 1,
                 !.ret = Len(l.nodes) + 1]

insert_at(l, value, index) ==
  IF index > l.len THEN [l EXCEPT !.ret = 0]
  ELSE IF index = 0 THEN insert_start(l, value)
  ELSE IF index = l.len THEN insert_end(l, value)
  ELSE InsertBefore(l, value, node_at(l, index))

(* usize::saturating_sub(1) *)
saturating_sub1(n) == IF n = 0 THEN 0 ELSE n - 1

(* pop_start once `next` is taken out of the old head *)
PoppedStart(l, next) ==
  IF next # 0
  THEN [l EXCEPT !.nodes = [@ EXCEPT ![l.head].next = 0, ![next].prev = 0],
                 !.head = next,
                 !.len = saturating_sub1(@),
                 !.ret = l.head]
  ELSE [l EXCEPT !.head = 0,
                 !.tail = 0,
                 !.len = saturating_sub1(@),
                 !.ret = l.head]

pop_start(l) ==
  IF l.head = 0 THEN [l EXCEPT !.ret = 0] ELSE PoppedStart(l, l.nodes[l.head].next)

(* pop_end once `prev` is taken out of the old tail *)
PoppedEnd(l, prev) ==
  IF prev # 0
  THEN [l EXCEPT !.nodes = [@ EXCEPT ![l.tail].prev = 0, ![prev].next = 0],
                 !.tail = prev,
                 !.len = saturating_sub1(@),
                 !.ret = l.tail]
  ELSE [l EXCEPT !.head = 0,
                 !.tail = 0,
                 !.len = saturating_sub1(@),
                 !.ret = l.tail]

pop_end(l) ==
  IF l.tail = 0 THEN [l EXCEPT !.ret = 0] ELSE PoppedEnd(l, l.nodes[l.tail].prev)

(* a removal that leaves next.prev on the removed node *)
Unlinked_KeepsPrev(nodes, current, prev, next) ==
  [i \in DOMAIN nodes |->
     IF i = prev THEN [nodes[i] EXCEPT !.next = next] ELSE nodes[i]]

(* the nodes once `current`, between prev and next, is taken out *)
Unlinked(nodes, current, prev, next) ==
  [i \in DOMAIN nodes |->
     IF i = prev /\ i = next THEN [nodes[i] EXCEPT !.next = next, !.prev = prev]
     ELSE IF i = prev THEN [nodes[i] EXCEPT !.next = next]
     ELSE IF i = next THEN [nodes[i] EXCEPT !.prev = prev]
     ELSE nodes[i]]

(* pop_at of a node between two others, given node_at(index) *)
PoppedAt(l, current) ==
  IF current = 0 THEN [l EXCEPT !.panic = TRUE]
  ELSE [l EXCEPT !.nodes = Unlinked(@, current, l.nodes[current].prev, l.nodes[current].next),
                 !.len = saturating_sub1(@),
                 !.ret = current]

pop_at(l, index) ==
  IF index >= l.len THEN [l EXCEPT !.ret = 0]
  ELSE IF index = 0 THEN pop_start(l)
  ELSE IF index = l.len - 1 THEN pop_end(l)
  ELSE PoppedAt(l, node_at(l, index))

InitList == NoLogFile /\ util = LinkedList_new

(* the call made on the list and the index it was given *)
ListCall(l, op, index) ==
  /\ util.kind = "list" /\ util.calls < MaxCalls /\ ~util.panic
  /\ util' = [l EXCEPT !.op = op, !.index = index, !.calls = util.calls + 1]
  /\ UNCHANGED LogFileVars

(* the value inserted is the number of the call *)
InsertStart == ListCall(insert_start(util, util.calls + 1), "insert_start", 0)
InsertEnd == ListCall(insert_end(util, util.calls + 1), "insert_end", 0)
InsertAt(index) == ListCall(insert_at(util, util.calls + 1, index), "insert_at", index)
PopStart == ListCall(pop_start(util), "pop_start", 0)
PopEnd == ListCall(pop_end(util), "pop_end", 0)
PopAt(index) == ListCall(pop_at(util, index), "pop_at", index)

(* the indexes of the nodes, the one past the end and one beyond it *)
NextList ==
  \/ InsertStart
  \/ InsertEnd
  \/ \E index \in 0..(util.len + 1) : InsertAt(index)
  \/ PopStart
  \/ PopEnd
  \/ \E index \in 0..(util.len + 1) : PopAt(index)

SpecList == InitList /\ [][NextList]_vars

-----------------------------------------------------------------------------
(* The record layout.  The writers of the two engines (lsm-database and    *)
(* kv-database) and their readers, on one file: `writes` lists, for each   *)
(* record written, its offset and the key and value given to the writer.   *)

(* kv-database, compact: the five write_all calls on the temp file *)
kv_CompactBytes(meta) ==
  meta.timestamp \o to_le_bytes(meta.key_size) \o meta.key_buf
    \o to_le_bytes(meta.value_size) \o meta.value_buf

(* kv-database, get_index_from_file once the three header words are read:  *)
(* read_exact_at of the key, then of the value, fails with UnexpectedEof    *)
(* past the end of the file (a size of 2^24 or more is past it)            *)
kv_DecodeBody(file, offset, key_size, value_size) ==
  IF offset + HEADER + key_size > Len(file) THEN [res |-> "UnexpectedEof"]
  ELSE IF offset + HEADER + key_size + value_size > Len(file) THEN [res |-> "UnexpectedEof"]
  ELSE [res |-> "Ok",
        meta |-> [timestamp |-> ReadAt(file, offset, WORD),
                  key_size |-> key_size,
                  key_buf |-> ReadAt(file, offset + HEADER, key_size),
                  value_size |-> value_size,
                  value_buf |-> ReadAt(file, offset + HEADER + key_size, value_size)],
        offset |-> offset + HEADER + key_size + value_size]

kv_get_index_from_file(offset, file) ==
  IF offset + HEADER > Len(file)
  THEN [res |-> "UnexpectedEof"]
  ELSE kv_DecodeBody(file, offset,
                     from_le_bytes(ReadAt(file, offset + WORD, WORD)),
                     from_le_bytes(ReadAt(file, offset + 2 * WORD, WORD)))

EngineNames == {"lsm-database", "kv-database"}

(* the bytes each writer of each engine writes for a record *)
Written(engine, writer, meta) ==
  IF engine = "kv-database" /\ writer = "compact" THEN kv_CompactBytes(meta)
  ELSE RecordBytes(meta)

(* what the reader of the engine decodes at an offset *)
Reader(engine, offset, file) ==
  IF engine = "kv-database" THEN kv_get_index_from_file(offset, file)
  ELSE get_index_from_file(offset, file)

LayoutValues == {EmptyStr, ValX}

InitLayout ==
  /\ NoLogFile
  /\ \E engine \in EngineNames :
       util = [kind |-> "layout", engine |-> engine, file |-> <<>>, writes |-> <<>>]

(* one record written at the end of the file *)
WriteRecord(writer, timestamp, key, value) ==
  /\ util.kind = "layout" /\ Len(util.writes) < MaxCalls
  /\ util' = [util EXCEPT
       !.file = @ \o Written(util.engine, writer, MetaIndex(timestamp, key, value)),
       !.writes = Append(@, [writer |-> writer, offset |-> Len(util.file),
                             key |-> key, value |-> value])]
  /\ UNCHANGED LogFileVars

(* append stamps its record with nanoseconds, update with seconds; delete  *)
(* writes the record it has read with an empty value; compact writes the   *)
(* records it has read as they are                                          *)
NextLayout ==
  \/ \E key \in Keys, value \in LayoutValues :
       WriteRecord("append", NowNanos, key, value)
  \/ \E key \in Keys, value \in LayoutValues :
       WriteRecord("update", NowSecs, key, value)
  \/ \E key \in Keys : WriteRecord("delete", NowNanos, key, EmptyStr)
  \/ \E key \in Keys : WriteRecord("compact", NowSecs, key, ValX)

SpecLayout == InitLayout /\ [][NextLayout]_vars

-----------------------------------------------------------------------------
(* The engine mutex.  Each call is the sequence of lock() and guard drops  *)
(* it makes, in program order, those of the helpers it calls in their      *)
(* place; a guard that is a temporary is dropped at the end of its         *)
(* statement (of the loop, for the guard in the head of a `for`).          *)

Guarded == <<"lock", "unlock">>

create_Locks == Guarded

(* split that keeps the guard of `current_file_id += 1` while it calls create *)
split_Locks_HoldsGuard(rotate) ==
  Guarded \o (IF rotate THEN <<"lock">> \o create_Locks \o <<"unlock">> ELSE <<>>)

(* fs::metadata(&lock().path); then, over the threshold, the id bump and create *)
split_Locks(rotate) ==
  Guarded \o (IF rotate THEN Guarded \o create_Locks ELSE <<>>)

(* open(&lock().path), the writes, split *)
insert_index_value_Locks(rotate) == Guarded \o split_Locks(rotate)

(* from lock() to drop(inner), or to the early return *)
get_index_value_Locks == Guarded

(* branch: "rejected" for the early return of append, update, read and     *)
(* delete, "rotated" for a write after which split rotates, "written"      *)
(* otherwise                                                                *)
Locks(op, branch) ==
  CASE op = "start" -> Guarded \o Guarded \o create_Locks
    [] op \in {"append", "update"} ->
         Guarded \o (IF branch = "rejected" THEN <<>>
                     ELSE insert_index_value_Locks(branch = "rotated"))
    [] op = "read" ->
         Guarded \o (IF branch = "rejected" THEN <<>> ELSE get_index_value_Locks)
    [] op = "delete" ->
         get_index_value_Locks
           \o (IF branch = "rejected" THEN <<>>
               ELSE insert_index_value_Locks(branch = "rotated") \o Guarded)
    [] OTHER -> Guarded \o Guarded \o Guarded \o Guarded \o Guarded \o Guarded \o Guarded

Operations == {"start", "append", "read", "update", "delete", "compact"}
Branches == {"rejected", "written", "rotated"}

InitLock ==
  /\ NoLogFile
  /\ util = [kind |-> "mutex", holder |-> "", todo |-> [t \in Threads |-> <<>>],
             op |-> [t \in Threads |-> ""], calls |-> 0]

LockCall(t, op, branch) ==
  /\ util.kind = "mutex" /\ util.todo[t] = <<>> /\ util.calls < MaxCalls
  /\ util' = [util EXCEPT !.todo[t] = Locks(op, branch), !.op[t] = op, !.calls = @ + 1]
  /\ UNCHANGED LogFileVars

(* Mutex::lock(): blocks while the mutex is held, by this thread as well *)
Acquire(t) ==
  /\ util.kind = "mutex" /\ util.todo[t] # <<>> /\ Head(util.todo[t]) = "lock"
  /\ util.holder = ""
  /\ util' = [util EXCEPT !.holder = t, !.todo[t] = Tail(@)]
  /\ UNCHANGED LogFileVars

(* the guard is dropped *)
Release(t) ==
  /\ util.kind = "mutex" /\ util.todo[t] # <<>> /\ Head(util.todo[t]) = "unlock"
  /\ util' = [util EXCEPT !.holder = "", !.todo[t] = Tail(@)]
  /\ UNCHANGED LogFileVars

NextLock ==
  \/ \E t \in Threads, op \in Operations, branch \in Branches : LockCall(t, op, branch)
  \/ \E t \in Threads : Acquire(t)
  \/ \E t \in Threads : Release(t)

SpecLock == InitLock /\ [][NextLock]_vars

(* every thread is scheduled, and one that waits for the mutex gets it *)
SpecLockFair ==
  /\ SpecLock
  /\ \A t \in Threads : WF_vars(Release(t)) /\ SF_vars(Acquire(t))

-----------------------------------------------------------------------------
(* What a client observes of a key: the value get returns, NotFound, or   *)
(* another error (an io::Error of the file system or of the decoder)       *)
NotFound == Failed("KeyMissing")

Outcome(r) ==
  IF r.res = "Ok" \/ r.res = "KeyMissing" \/ r.res = "Panic" THEN r ELSE Failed("IoError")

Observed == [k \in Keys |-> Outcome(read(Eng, k))]

(* The records of a file as a scan from offset 0 finds them: the set of    *)
(* [offset, key, value] of the complete records                             *)
RECURSIVE RecordsFrom(_, _)
RecordAt(file, offset, r) ==
  IF r.res # "Ok" THEN {}
  ELSE {[offset |-> offset, key |-> r.meta.key_buf, value |-> r.meta.value_buf]}
         \cup RecordsFrom(file, r.offset)

RecordsFrom(file, offset) ==
  IF Len(file) <= offset THEN {}
  ELSE RecordAt(file, offset, get_index_from_file(offset, file))

(* the records of the registered segments, each with its file_id *)
LogRecords ==
  UNION {{[file_id |-> id, offset |-> r.offset, key |-> r.key, value |-> r.value] :
            r \in RecordsFrom(disk[file_index[id]], 0)} :
         id \in {i \in DOMAIN file_index : file_index[i] \in DOMAIN disk}}

Later(a, b) == a.file_id > b.file_id \/ (a.file_id = b.file_id /\ a.offset > b.offset)

(* the latest record of key k in (file_id, offset) order *)
IsLatest(r, k) ==
  /\ r \in LogRecords /\ r.key = k
  /\ \A q \in LogRecords : q.key = k => ~Later(q, r)

-----------------------------------------------------------------------------
(* C1: a successful put(K, V) immediately followed by get(K) returns V,    *)
(* whatever calls were made before.                                         *)
C1_RoundTrip ==
  (last.op = "put" /\ last.res = "Ok") => read(Eng, last.key) = Value(last.value)

(* C2: after successful puts and updates (of any keys), get(K) returns the *)
(* value of the most recent successful put/update of K.                     *)
C2_LastWriteWins ==
  \A k \in clean : read(Eng, k) = Value(expect[k].value)

Readable == {k \in Keys : Observed[k].res = "Ok" /\ Observed[k].value # <<>>}

(* C4: a reopen (a fresh engine started over the same directory) leaves    *)
(* the result of get unchanged (stated for the keys for which get returned *)
(* a value that is not empty: each still returns that value).              *)
C4_RecoveryEquivalence ==
  [][(phase = "running" /\ last'.op = "reopen") =>
       \A k \in Readable : Observed'[k] = Observed[k]]_vars

(* C5: compact() leaves the result of get unchanged (stated for the keys   *)
(* for which get returned a value that is not empty).                       *)
C5_CompactionEquivalence ==
  [][last'.op = "compact" => \A k \in Readable : Observed'[k] = Observed[k]]_vars

(* C6: after a reopen, get(K) returns V for every key K whose last         *)
(* successful write was put(K, V) (stated for V not the empty string).     *)
C6_Durability ==
  (last.op = "reopen" /\ last.res = "Ok") =>
    \A k \in DOMAIN expect :
      (expect[k].op = "put" /\ expect[k].value # <<>>) =>
        read(Eng, k) = Value(expect[k].value)

(* the keys the client wrote last with a value that is not empty *)
Valued == {k \in DOMAIN expect : expect[k].value # <<>>}

(* C7 (I1): between operations, every index entry names a registered       *)
(* segment in which a record starts at its offset, with a value that is    *)
(* not empty (stated for the keys written with a value that is not empty). *)
C7_IndexEntriesLive ==
  phase = "running" =>
    \A k \in DOMAIN data_index \cap Valued :
      \E r \in LogRecords :
        /\ r.file_id = data_index[k].file_id
        /\ r.offset = data_index[k].offset
        /\ r.value # <<>>

(* C8 (I2): between operations, a key is in the index iff its latest       *)
(* record over the registered segments has a value that is not empty, and  *)
(* its entry is the place of that record (stated for the keys in the       *)
(* index that were written with a value that is not empty).                 *)
C8_IndexIsReplay ==
  phase = "running" =>
    \A k \in DOMAIN data_index \cap Valued :
      \E r \in LogRecords :
        /\ IsLatest(r, k) /\ r.value # <<>>
        /\ r.file_id = data_index[k].file_id /\ r.offset = data_index[k].offset

-----------------------------------------------------------------------------
(* Concurrent calls against the calls made one at a time *)

Mutations == {"put", "update", "delete"}
Returned(t) == th[t].pc = "done"

(* the call c made on its own on the engine s *)
Alone(s, c) ==
  CASE c.op = "put" -> append(s, c.key, c.value)
    [] c.op = "update" -> update(s, c.key, c.value)
    [] OTHER -> delete(s, c.key)

(* the calls of the threads a and b made one at a time, a's first, on the  *)
(* engine the threads started from: the engine left and what each returned *)
Then(a, b, first) == [a |-> first, b |-> Alone(first.s, th[b])]
Serial(a, b) == Then(a, b, Alone(InitEngine, th[a]))

SameAs(a, b, serial) ==
  /\ data_index = serial.b.s.data_index
  /\ disk = serial.b.s.disk
  /\ \A k \in Keys : read(Eng, k) = read(serial.b.s, k)
  /\ th[a].res = serial.a.res
  /\ th[b].res = serial.b.res

(* C9: once two concurrent mutations have both returned, the index, the    *)
(* files, the result of every get and what the two calls returned are      *)
(* those of the two calls made one after the other, in one of the two      *)
(* orders.                                                                  *)
C9_SerializedMutations ==
  (\A t \in Threads : Returned(t) /\ th[t].op \in Mutations) =>
    \/ SameAs("t1", "t2", Serial("t1", "t2"))
    \/ SameAs("t2", "t1", Serial("t2", "t1"))

(* what get(K) returned to thread r *)
GetResult(r) == [res |-> th[r].res, value |-> th[r].ret]

(* C10: a get(K) that ran while another thread was in put(K, V2) returns   *)
(* what get(K) returned before the put, or V2, and nothing else; and once  *)
(* both have returned, get(K) returns V2.                                   *)
C10_AtomicVisibility ==
  \A w \in Threads, r \in Threads :
    (/\ th[w].op = "put" /\ th[r].op = "get" /\ th[r].key = th[w].key
     /\ Returned(r)) =>
      /\ GetResult(r) \in {read(InitEngine, th[r].key), Value(th[w].value)}
      /\ (Returned(w) /\ th[w].res = "Ok") => read(Eng, th[w].key) = Value(th[w].value)

(* C11: when compact returns, a put that began after compact had scanned   *)
(* the files and had returned success by then is readable: get of its key  *)
(* returns its value.                                                       *)
C11_CompactionKeepsWrites ==
  [][(/\ th[Compactor].pc # "done" /\ th'[Compactor].pc = "done"
      /\ th'[Compactor].res = "Ok"
      /\ th[Writer].pc = "done" /\ th[Writer].op = "put" /\ th[Writer].res = "Ok")
     => read(Eng, th[Writer].key)' = Value(th[Writer].value)]_vars

(* C12: when the process ends inside compact (no other call was made) and  *)
(* a new engine is started over the directory, every key that get returned *)
(* a value for before compact is read with that value.                      *)
C12_CrashSafeCompaction ==
  (/\ last.op = "reopen" /\ th[Compactor].pc = "crashed"
   /\ th[Writer].pc = "idle") =>
    \A k \in Keys : read(InitEngine, k).res = "Ok" => read(Eng, k) = read(InitEngine, k)

(* C13: every call that makes a new active segment gives it a file_id      *)
(* greater than the file_ids given before, so greater than that of the     *)
(* segment that was active until then.                                      *)
C13_SegmentMonotonicity ==
  [][path' # path => path'[2] > path[2]]_vars

(* C14 (I3): after start(), every segment of the registry other than the   *)
(* active one has a file_id less than current_file_id.                      *)
C14_SealedBelowActive ==
  phase = "running" =>
    \A id \in DOMAIN file_index : id # current_file_id => id < current_file_id

(* the segment files of the directory and the bytes they hold together *)
Segments == {p \in DOMAIN disk : IsSegmentName(p)}

RECURSIVE Bytes(_)
Bytes(paths) ==
  IF paths = {} THEN 0
  ELSE Len(disk[CHOOSE p \in paths : TRUE]) + Bytes(paths \ {CHOOSE p \in paths : TRUE})

(* C15 (P8): once puts have written more bytes than FILE_THRESHOLD there   *)
(* is more than one segment file, and every key put so far is read with    *)
(* its last value, its index entry naming the segment and the offset at    *)
(* which that record lies.                                                  *)
C15_RotationCorrectness ==
  (phase = "running" /\ Bytes(Segments) > FILE_THRESHOLD) =>
    /\ Cardinality(Segments) > 1
    /\ \A k \in DOMAIN expect :
         /\ read(Eng, k) = Value(expect[k].value)
         /\ \E r \in LogRecords :
              /\ r.key = k /\ r.value = expect[k].value
              /\ r.file_id = data_index[k].file_id /\ r.offset = data_index[k].offset

(* a key put before a rotation and another put after it *)
C15_Witness ==
  /\ phase = "running" /\ Bytes(Segments) > FILE_THRESHOLD
  /\ KeyA \in DOMAIN data_index /\ data_index[KeyA].file_id < current_file_id
  /\ last.op = "put" /\ last.key = KeyB /\ last.res = "Ok"
  /\ data_index[KeyB].file_id = current_file_id

(* C16: put("", V) and update("", V) return an error and leave the index,  *)
(* the registry, byte_offset, current_file_id, the active path and every   *)
(* file as they were.                                                       *)
C16_EmptyKeyRejected ==
  [][(nops' = nops + 1 /\ last'.op \in {"put", "update"} /\ last'.key = EmptyStr) =>
       (last'.res = "EmptyKey" /\ Eng' = Eng)]_vars

(* put("", V) was called on an engine that holds a key *)
C16_Witness ==
  /\ last.op = "put" /\ last.key = EmptyStr /\ last.res = "EmptyKey"
  /\ phase = "running" /\ KeyA \in DOMAIN data_index

(* C17: get, update and delete of a key that is not in the index return an *)
(* error and leave the index, the registry, byte_offset and every file as  *)
(* they were.                                                               *)
C17_NotFoundNoSideEffects ==
  [][(/\ nops' = nops + 1 /\ last'.op \in {"get", "update", "delete"}
      /\ last'.key \notin DOMAIN data_index) =>
       (last'.res \in {"KeyMissing", "EmptyKey"} /\ Eng' = Eng)]_vars

(* update of a key that is not in the index was called on an engine that   *)
(* holds another key                                                        *)
C17_Witness ==
  /\ last.op = "update" /\ last.key = KeyB /\ last.res = "KeyMissing"
  /\ phase = "running" /\ KeyA \in DOMAIN data_index /\ KeyB \notin DOMAIN data_index

(* C18: a put or update that returns the error of a failed write_all or    *)
(* sync_all leaves the index and the offset counter as they were before    *)
(* the call.                                                                *)
C18_FailedWriteNoChange ==
  [][(nops' = nops + 1 /\ last'.res = "WriteFailed") =>
       (data_index' = data_index /\ byte_offset' = byte_offset)]_vars

(* C19: after a put whose rotation failed in create, the next put, update  *)
(* or delete (no start() in between) returns an error.                      *)
C19_RotationFailureDegrades ==
  [][(/\ last.res = "CreateFailed"
      /\ nops' = nops + 1 /\ last'.op \in {"put", "update", "delete"}) =>
       last'.res # "Ok"]_vars

(* C20: get never returns the empty value of a tombstone: a get whose      *)
(* index entry leads to a record with an empty value returns NotFound; so  *)
(* does get(K) right after put(K, "").                                      *)
C20_NoTombstoneValue ==
  /\ \A k \in Keys : read(Eng, k) # Value(<<>>)
  /\ (last.op = "put" /\ last.value = <<>> /\ last.res = "Ok") =>
       read(Eng, last.key) = NotFound

(* the bytes of `file` that a scan from `offset` on decodes as records *)
RECURSIVE ScanEnd(_, _)
ScanEndAt(file, offset, r) == IF r.res # "Ok" THEN offset ELSE ScanEnd(file, r.offset)
ScanEnd(file, offset) ==
  IF Len(file) <= offset THEN offset
  ELSE ScanEndAt(file, offset, get_index_from_file(offset, file))

(* the segments that end in a part of a record *)
TornSegments == {p \in Segments : ScanEnd(disk[p], 0) < Len(disk[p])}

(* C21: start() over a directory in which a segment ends inside a record   *)
(* (inside its header, key or value) returns Ok; the index it builds is    *)
(* the replay of the complete records of every segment, those of the       *)
(* segments after the torn one included: a key is indexed iff its latest   *)
(* complete record has a value, at that record's segment and offset.       *)
C21_TruncatedTail ==
  (last.op \in {"torn", "reopen"} /\ TornSegments # {}) =>
    /\ last.res = "Ok"
    /\ Segments \subseteq Registered
    /\ \A r \in LogRecords :
         IsLatest(r, r.key) =>
           IF r.value = <<>> THEN r.key \notin DOMAIN data_index
           ELSE /\ r.key \in DOMAIN data_index
                /\ data_index[r.key] = [offset |-> r.offset, file_id |-> r.file_id]
    /\ \A k \in DOMAIN data_index : \E r \in LogRecords : r.key = k

(* a restart over a segment that holds a complete record of a key, which  *)
(* is indexed there, and then a part of a record                            *)
C21_Witness ==
  /\ last.op = "torn" /\ last.res = "Ok"
  /\ \E p \in TornSegments :
       /\ ScanEnd(disk[p], 0) > 0
       /\ \E k \in DOMAIN data_index : file_index[data_index[k].file_id] = p

(* C22: after start() returned Ok over the directory earlier runs left,    *)
(* every index entry names a registered segment that is on disk and the    *)
(* offset of a record of its key with a value there, and every registered  *)
(* segment but the active one has a file_id below current_file_id.         *)
C22_InvariantsAfterRecovery ==
  (last.op = "reopen" /\ last.res = "Ok") =>
    /\ \A k \in DOMAIN data_index :
         /\ data_index[k].file_id \in DOMAIN file_index
         /\ file_index[data_index[k].file_id] \in DOMAIN disk
         /\ \E r \in LogRecords :
              /\ r.key = k /\ r.value # <<>>
              /\ r.file_id = data_index[k].file_id /\ r.offset = data_index[k].offset
    /\ \A id \in DOMAIN file_index : id # current_file_id => id < current_file_id

(* C23: after a compact() that returned Ok there is one log file in the    *)
(* directory and one entry in the registry, that of the new segment.       *)
C23_OneSegmentAfterCompact ==
  (last.op = "compact" /\ last.res = "Ok") =>
    /\ Cardinality({p \in DOMAIN disk : p[1] = "log-file-"}) = 1
    /\ DOMAIN file_index = {current_file_id}
    /\ file_index[current_file_id] \in DOMAIN disk

(* C24: binary_search on a slice sorted in ascending order returns, and    *)
(* returns Some(target) if the target is an element of the slice and None  *)
(* if it is not.                                                            *)
C24_BinarySearch ==
  util.kind = "search" =>
    /\ util.pc # "overflow"
    /\ util.pc = "returned" =>
         util.ret = IF \E i \in 1..Len(util.input) : util.input[i] = util.value
                    THEN Some(util.value) ELSE None

(* the fields of the structure itself: what a call that changes nothing    *)
(* leaves as it was                                                         *)
Structure(q) == [nodes |-> q.nodes, head |-> q.head, tail |-> q.tail, len |-> q.len]

(* C25: after every call the values from head to tail (into_vec) are the   *)
(* values enqueued and not yet dequeued, in the order of their enqueue,    *)
(* and size() is their number; peek and dequeue return the first of them,  *)
(* or None on an empty queue, which dequeue then leaves unchanged.          *)
C25_QueueFifo ==
  [][util'.kind = "queue" =>
       /\ into_vec(util)' = util'.fifo
       /\ size(util)' = Len(util'.fifo)
       /\ util'.op \in {"peek", "dequeue"} =>
            util'.ret = IF util.fifo = <<>> THEN None ELSE Some(Head(util.fifo))
       /\ (util'.op = "dequeue" /\ util.fifo = <<>>) =>
            Structure(util)' = Structure(util)]_vars

(* a dequeue returned the first of several values and left a queue that is *)
(* not empty                                                                *)
C25_Witness ==
  /\ util.kind = "queue" /\ util.op = "dequeue" /\ util.ret # None
  /\ Len(util.fifo) >= 2

-----------------------------------------------------------------------------
(* The nodes met from `cursor` through next, at most `fuel` of them *)
RECURSIVE Chain(_, _, _)
Chain(nodes, cursor, fuel) ==
  IF cursor = 0 \/ fuel = 0 THEN <<>>
  ELSE <<cursor>> \o Chain(nodes, nodes[cursor].next, fuel - 1)

Reachable(l) == Chain(l.nodes, l.head, Len(l.nodes) + 1)

Linked(l, chain) ==
  /\ l.len = Len(chain)
  /\ \A i, j \in DOMAIN chain : chain[i] = chain[j] => i = j
  /\ l.tail = IF chain = <<>> THEN 0 ELSE chain[Len(chain)]
  /\ (l.head = 0) = (l.len = 0)
  /\ (l.tail = 0) = (l.len = 0)
  /\ \A i \in DOMAIN chain :
       /\ l.nodes[chain[i]].prev = IF i = 1 THEN 0 ELSE chain[i - 1]
       /\ l.nodes[chain[i]].next = IF i = Len(chain) THEN 0 ELSE chain[i + 1]

(* C26: after every call on a LinkedList, size() is the number of nodes    *)
(* reachable from head through next, tail is the last of them, head and    *)
(* tail are None exactly when the size is 0, and neighbours point at each  *)
(* other through next and prev; a call with an index out of range returns  *)
(* None and changes nothing.                                                *)
C26_ListLinks ==
  [][util'.kind = "list" =>
       /\ ~util'.panic
       /\ Linked(util', Reachable(util)')
       /\ (\/ util'.op = "insert_at" /\ util'.index > util.len
           \/ util'.op = "pop_at" /\ util'.index >= util.len) =>
            util'.ret = 0 /\ Structure(util)' = Structure(util)]_vars

(* the node between two others was removed from a list of three *)
C26_Witness ==
  /\ util.kind = "list"
  /\ util.op = "pop_at"
  /\ util.index = 1
  /\ util.ret # 0
  /\ util.len = 2


(* C27: between operations byte_offset is the size of the active segment   *)
(* file, so the offset a put or an update stores in the index is the       *)
(* position at which the bytes of its record begin; after any calls of     *)
(* put, update, delete and compact, with or without a rotation.            *)
C27_OffsetIsFileSize ==
  phase = "running" =>
    /\ path \in DOMAIN disk /\ byte_offset = Len(disk[path])
    /\ (last.op \in {"put", "update"} /\ last.res = "Ok") =>
         \E r \in LogRecords :
           /\ r.key = last.key
           /\ r.file_id = data_index[last.key].file_id
           /\ r.offset = data_index[last.key].offset


(* the record that the index entry `e` of key k names is in its file *)
Durable(k, e) ==
  /\ e.file_id \in DOMAIN file_index
  /\ file_index[e.file_id] \in DOMAIN disk
  /\ \E r \in RecordsFrom(disk[file_index[e.file_id]], e.offset) :
       r.offset = e.offset /\ r.key = k

(* C28: put and update change the index entry of their key to the new      *)
(* (file_id, offset) only after the bytes of the record are appended and    *)
(* synced: in no state, during a call or between calls, does an index      *)
(* entry name a location whose bytes are not written yet.                   *)
C28_IndexAfterAppend ==
  \A k \in DOMAIN data_index : Durable(k, data_index[k])


(* `after` is `before` followed by the bytes of one whole record *)
OneRecordMore(before, after) ==
  /\ SubSeq(after, 1, Len(before)) = before
  /\ \E r \in RecordsFrom(after, Len(before)) :
       /\ r.offset = Len(before)
       /\ Len(after) = Len(before) + HEADER + Len(r.key) + Len(r.value)

C30_DeleteEffect ==
  [][(/\ nops' = nops + 1
      /\ last'.op = "delete" /\ last'.res = "Ok"
      /\ last'.key \in DOMAIN data_index) =>
       /\ path \in DOMAIN disk /\ path \in DOMAIN disk'
       /\ OneRecordMore(disk[path], disk'[path])
       /\ \E r \in RecordsFrom(disk'[path], Len(disk[path])) :
            r.offset = Len(disk[path]) /\ r.key = last'.key /\ r.value = <<>>
       /\ data_index' = MapRemove(data_index, last'.key)
       /\ \A p \in DOMAIN disk \ {path} : p \in DOMAIN disk' /\ disk'[p] = disk[p]]_vars


(* the records of the log files of the directory, each with the number in  *)
(* the name of its file                                                     *)
DiskRecords ==
  UNION {{[file_id |-> p[2], offset |-> r.offset, key |-> r.key, value |-> r.value] :
            r \in RecordsFrom(disk[p], 0)} :
         p \in {q \in DOMAIN disk : q[1] = "log-file-"}}

(* r is the last record of its key in (file_id, offset) order *)
LastOnDisk(r) == \A q \in DiskRecords : q.key = r.key => ~Later(q, r)

NoHintFile == \A p \in DOMAIN disk : p[1] # "hint-"

(* C31: after a start() over a directory without a hint file, the index    *)
(* holds exactly the keys whose last record in the segments, in ascending  *)
(* file_id and then ascending offset, has a value, each with the file_id   *)
(* of the file and the offset of that record.                               *)
C31_RecoveredIndex ==
  (last.op = "reopen" /\ last.res = "Ok" /\ NoHintFile) =>
    /\ \A r \in DiskRecords :
         (LastOnDisk(r) /\ r.value # <<>>) =>
           /\ r.key \in DOMAIN data_index
           /\ data_index[r.key] = [offset |-> r.offset, file_id |-> r.file_id]
    /\ \A k \in DOMAIN data_index :
         \E r \in DiskRecords : r.key = k /\ LastOnDisk(r) /\ r.value # <<>>


(* the numbers in the names of the log files of the directory *)
LogFileIds == {p[2] : p \in {q \in DOMAIN disk : q[1] = "log-file-"}}

(* C32: a start() that returned Ok made current_file_id the greatest       *)
(* segment id of the directory plus 1, or 1 if the directory held no       *)
(* segment, and created an empty segment of that id as the active one.     *)
C32_NextActiveId ==
  [][(last'.op \in {"start", "reopen"} /\ last' # last /\ last'.res = "Ok") =>
       /\ current_file_id' = IF LogFileIds = {} THEN 1 ELSE Max(LogFileIds) + 1
       /\ path' = SegPath(current_file_id')
       /\ path' \notin DOMAIN disk
       /\ path' \in DOMAIN disk' /\ disk'[path'] = <<>>]_vars


(* the directory without its temp-log-file-* files *)
TempFiles == {p \in DOMAIN disk : p[1] = "temp-log-file-"}
WithoutTemp == [p \in DOMAIN disk \ TempFiles |-> disk[p]]

(* what start() of a fresh engine makes of directory d, temp files aside *)
Summary(r) ==
  [res |-> r.res, data_index |-> r.s.data_index, file_index |-> r.s.file_index,
   current_file_id |-> r.s.current_file_id, path |-> r.s.path,
   files |-> [p \in {q \in DOMAIN r.s.disk : q[1] # "temp-log-file-"} |-> r.s.disk[p]]]

Recovered(d) == Summary(start(new(d)))

(* C33: start() over a directory that holds temp-log-file-* files returns  *)
(* the result, the index, the registry, the active id and path and the     *)
(* other files that it returns over the same directory without them.       *)
C33_TempFilesIgnored ==
  Recovered(disk) = Recovered(WithoutTemp)

(* a fresh engine has started over a directory that holds the temp file    *)
(* of an interrupted compaction, with records in it                        *)
C33_Witness ==
  /\ last.op = "reopen" /\ last.res = "Ok"
  /\ \E p \in TempFiles : disk[p] # <<>>
  /\ data_index # EmptyMap


(* the key and value of each record of a file *)
Contents(file) == {[key |-> r.key, value |-> r.value] : r \in RecordsFrom(file, 0)}

(* the key and value of the last record of each key in the registered      *)
(* segments, for the keys whose last record has a value                    *)
LiveSet ==
  {[key |-> r.key, value |-> r.value] :
     r \in {q \in LogRecords : IsLatest(q, q.key) /\ q.value # <<>>}}

(* C34: the segment a compact() that returned Ok has written holds one     *)
(* record for each key whose last record in the segments of the registry,  *)
(* in ascending (file_id, offset), has a value, with that value, and no    *)
(* other record.                                                            *)
C34_CompactedIsLiveSet ==
  [][(nops' = nops + 1 /\ last'.op = "compact" /\ last'.res = "Ok") =>
       /\ path' \in DOMAIN disk'
       /\ Contents(disk'[path']) = LiveSet
       /\ Cardinality(RecordsFrom(disk'[path'], 0)) = Cardinality(LiveSet)
       /\ ScanEnd(disk'[path'], 0) = Len(disk'[path'])]_vars

(* a compact() has written a segment with a record in it after a key was   *)
(* deleted                                                                  *)
C34_Witness ==
  /\ last.op = "compact" /\ last.res = "Ok"
  /\ path \in DOMAIN disk /\ RecordsFrom(disk[path], 0) # {}
  /\ masked # {}


(* what read_hint_file decodes from the hint file of the active id *)
HintRead == HintLoop(disk[HintPath(current_file_id)], 0, EmptyMap)

(* C35: after a compact() that returned Ok, the first or a later one, the  *)
(* hint file of the new id decodes to the index as it is then, key by key, *)
(* and every entry gives the place of a record of its key in the new       *)
(* segment.                                                                 *)
C35_HintIsIndexSnapshot ==
  (last.op = "compact" /\ last.res = "Ok") =>
    /\ HintPath(current_file_id) \in DOMAIN disk
    /\ HintRead.res = "Ok"
    /\ HintRead.data_index = data_index
    /\ \A k \in DOMAIN HintRead.data_index :
         /\ HintRead.data_index[k].file_id = current_file_id
         /\ \E r \in RecordsFrom(disk[path], 0) :
              r.key = k /\ r.offset = HintRead.data_index[k].offset


(* C36: every record that put, update, delete or compaction of either      *)
(* engine has written is decoded by the reader of that engine, at the      *)
(* offset at which it begins, as the key and the value given to the        *)
(* writer, with the offset of the next record.                              *)
C36_OneRecordLayout ==
  util.kind = "layout" =>
    \A i \in DOMAIN util.writes :
      /\ Reader(util.engine, util.writes[i].offset, util.file).res = "Ok"
      /\ Reader(util.engine, util.writes[i].offset, util.file).meta.key_buf
           = util.writes[i].key
      /\ Reader(util.engine, util.writes[i].offset, util.file).meta.value_buf
           = util.writes[i].value
      /\ Reader(util.engine, util.writes[i].offset, util.file).offset
           = util.writes[i].offset + HEADER + Len(util.writes[i].key)
               + Len(util.writes[i].value)


(* C37: no call reaches a lock() of the engine mutex while its own thread  *)
(* holds it, and under fair scheduling every call that has begun returns,  *)
(* the mutex released.                                                      *)
C37_DeadlockFreedom ==
  /\ [](util.kind = "mutex" =>
          \A t \in Threads :
            (util.todo[t] # <<>> /\ Head(util.todo[t]) = "lock") => util.holder # t)
  /\ \A t \in Threads :
       (util.kind = "mutex" /\ util.todo[t] # <<>>)
         ~> (util.todo[t] = <<>> /\ util.holder # t)

(* a thread in the last critical section of an append holds the mutex     *)
(* while the other thread waits for it in compact                          *)
C37_Witness ==
  /\ util.kind = "mutex"
  /\ \E t \in Threads, u \in Threads :
       /\ util.holder = t /\ util.op[t] = "append" /\ util.todo[t] = <<"unlock">>
       /\ util.op[u] = "compact" /\ util.todo[u] # <<>> /\ Head(util.todo[u]) = "lock"


(* C38: in every state another thread can observe, while compact() scans   *)
(* and after a rotation during a compaction too, the file_id of every      *)
(* index entry is a key of the registry, so that the lookup get and delete *)
(* make under the mutex finds its segment.                                  *)
C38_RegistryLookupsHit ==
  \A k \in DOMAIN data_index : data_index[k].file_id \in DOMAIN file_index


(* C39: a compact() that returned an error, at whatever step, left the     *)
(* registry, the index, the active path and file_id and every segment      *)
(* file as they were before the call.                                       *)
C39_FailedCompactNoChange ==
  [][(nops' = nops + 1 /\ last'.op = "compact" /\ last'.res \notin {"Ok", "Panic"}) =>
       /\ file_index' = file_index
       /\ data_index' = data_index
       /\ path' = path
       /\ current_file_id' = current_file_id
       /\ \A p \in DOMAIN disk :
            p[1] = "log-file-" => (p \in DOMAIN disk' /\ disk'[p] = disk[p])]_vars


(* C40: between operations, after one or more compact() calls too, every   *)
(* path of the registry is a file of the directory.                        *)
C40_RegistryFilesExist ==
  phase = "running" =>
    \A id \in DOMAIN file_index : file_index[id] \in DOMAIN disk

====
